---- MODULE Spec2Model ----
(***************************************************************************)
(* A model of the ray tracer rangaemani/ray-tracing: the sphere / scene    *)
(* intersection protocol, the materials, the recursive colour estimator,   *)
(* the colour encoding and the parallel scanline render.                    *)
(*                                                                         *)
(* Real numbers (f64 in the source) are modelled as exact rationals        *)
(* <<n, d>> in lowest terms with d >= 0; <<1,0>>, <<-1,0>> and <<0,0>> stand *)
(* for +infinity, -infinity and NaN, so that division by zero behaves as   *)
(* in IEEE arithmetic (signed zeros and rounding are not modelled).        *)
(* Square roots are exact: the inputs are drawn from sets on which every   *)
(* square root the code takes is rational.                                 *)
(***************************************************************************)
EXTENDS Integers, Sequences, FiniteSets, TLC

(***************************************************************************)
(* f64 arithmetic                                                          *)
(***************************************************************************)
Abs(n) == IF n < 0 THEN -n ELSE n

Sign(n) == IF n < 0 THEN -1 ELSE IF n > 0 THEN 1 ELSE 0

RECURSIVE GCD(_, _)
GCD(a, b) == IF b = 0 THEN a ELSE GCD(b, a % b)

\* the rational n/d in lowest terms; d = 0 gives +-infinity or NaN
Reduce(n, d, g) == <<(Sign(d) * n) \div g, (Sign(d) * d) \div g>>

Q(n, d) == IF d = 0 THEN <<Sign(n), 0>> ELSE Reduce(n, d, GCD(Abs(n), Abs(d)))

R(n) == <<n, 1>>

PosInf == <<1, 0>>
NegInf == <<-1, 0>>
NaN == <<0, 0>>

IsNaN(a) == a = NaN
RAdd(a, b) ==
    IF IsNaN(a) \/ IsNaN(b) THEN NaN
    ELSE IF a[2] = 0 /\ b[2] = 0 THEN (IF a = b THEN a ELSE NaN)
    ELSE IF a[2] = 0 THEN a
    ELSE IF b[2] = 0 THEN b
    ELSE Q(a[1] * b[2] + b[1] * a[2], a[2] * b[2])

RNeg(a) == <<0 - a[1], a[2]>>

RSub(a, b) == RAdd(a, RNeg(b))

RMul(a, b) == Q(a[1] * b[1], a[2] * b[2])

\* a / b; x/0 is an infinity of x's sign, 0/0 and inf/inf are NaN
RDiv(a, b) ==
    IF IsNaN(a) \/ IsNaN(b) THEN NaN
    ELSE IF a[2] = 0 /\ b[2] = 0 THEN NaN
    ELSE IF b[2] = 0 THEN R(0)
    ELSE IF a[2] = 0 THEN (IF b[1] < 0 THEN RNeg(a) ELSE a)
    ELSE Q(a[1] * b[2], a[2] * b[1])

\* comparisons are false as soon as one side is NaN
RLt(a, b) ==
    /\ ~IsNaN(a)
    /\ ~IsNaN(b)
    /\ a # b
    /\ IF a[2] = 0 THEN a = NegInf
       ELSE IF b[2] = 0 THEN b = PosInf
       ELSE a[1] * b[2] < b[1] * a[2]

RLe(a, b) == ~IsNaN(a) /\ ~IsNaN(b) /\ (a = b \/ RLt(a, b))

RECURSIVE ISqrt_search(_, _, _)
RECURSIVE ISqrt_mid(_, _, _, _)
ISqrt_search(n, lo, hi) ==
    IF lo >= hi THEN lo ELSE ISqrt_mid(n, lo, hi, (lo + hi + 1) \div 2)

ISqrt_mid(n, lo, hi, mid) ==
    IF mid * mid <= n THEN ISqrt_search(n, mid, hi) ELSE ISqrt_search(n, lo, mid - 1)

\* the integer part of the square root of n >= 0; 46340 is the largest integer
\* whose square is a value of the model
ISqrt(n) == ISqrt_search(n, 0, IF n < 46340 THEN n ELSE 46340)

IsSquare(n) == n >= 0 /\ ISqrt(n) * ISqrt(n) = n

\* whether f64::sqrt of a is a value of the model
HasSqrt(a) ==
    \/ a[2] = 0
    \/ a[1] < 0
    \/ IsSquare(a[1]) /\ IsSquare(a[2])

\* f64::sqrt: NaN for a negative argument; evaluated only where HasSqrt holds
RSqrt(a) ==
    IF IsNaN(a) \/ a = NegInf \/ (a[2] # 0 /\ a[1] < 0) THEN NaN
    ELSE IF a = PosInf THEN PosInf
    ELSE IF IsSquare(a[1]) /\ IsSquare(a[2]) THEN <<ISqrt(a[1]), ISqrt(a[2])>>
    ELSE CHOOSE k \in {} : FALSE

(***************************************************************************)
(* Vec3  (src/src/vector.rs)                                               *)
(***************************************************************************)
V(x, y, z) == <<R(x), R(y), R(z)>>

Vec3_new == V(0, 0, 0)

Vec3_add(u, v) == <<RAdd(u[1], v[1]), RAdd(u[2], v[2]), RAdd(u[3], v[3])>>

Vec3_sub(u, v) == <<RSub(u[1], v[1]), RSub(u[2], v[2]), RSub(u[3], v[3])>>

\* component-wise product (Mul for Vec3)
Vec3_mul(u, v) == <<RMul(u[1], v[1]), RMul(u[2], v[2]), RMul(u[3], v[3])>>

\* t * v
Vec3_scale(t, v) == <<RMul(t, v[1]), RMul(t, v[2]), RMul(t, v[3])>>

\* v / t
Vec3_div(v, t) == <<RDiv(v[1], t), RDiv(v[2], t), RDiv(v[3], t)>>

Vec3_neg(v) == <<RNeg(v[1]), RNeg(v[2]), RNeg(v[3])>>

dot(u, v) == RAdd(RAdd(RMul(u[1], v[1]), RMul(u[2], v[2])), RMul(u[3], v[3]))

Vec3_cross(u, v) ==
    <<RSub(RMul(u[2], v[3]), RMul(u[3], v[2])),
      RSub(RMul(u[3], v[1]), RMul(u[1], v[3])),
      RSub(RMul(u[1], v[2]), RMul(u[2], v[1]))>>

\* the squared length
Vec3_magnitude(v) == dot(v, v)

Vec3_length(v) == RSqrt(Vec3_magnitude(v))

\* the zero vector normalizes to (NaN, NaN, NaN)
Vec3_normalize(v) == Vec3_div(v, Vec3_length(v))

\* |a| < 1e-8, computed without leaving 32-bit integers
BelowRange(a) ==
    /\ a[2] # 0
    /\ \/ a[1] = 0
       \/ Abs(a[1]) <= 21 /\ Abs(a[1]) * 100000000 < a[2]

Vec3_approx_zero(v) == BelowRange(v[1]) /\ BelowRange(v[2]) /\ BelowRange(v[3])

Vec3_reflect(v, n) == Vec3_sub(v, Vec3_scale(RMul(R(2), dot(v, n)), n))

HasLength(v) == HasSqrt(Vec3_magnitude(v))

(***************************************************************************)
(* Interval  (src/src/interval.rs)                                         *)
(***************************************************************************)
Interval_new(min, max) == [min |-> min, max |-> max]

\* a faulty variant: the bounds are not contained
Interval_contains_strictly(iv, x) == RLt(iv.min, x) /\ RLt(x, iv.max)

Interval_default == Interval_new(NegInf, PosInf)

Interval_EMPTY == Interval_new(PosInf, NegInf)

Interval_UNIVERSE == Interval_new(NegInf, PosInf)

Interval_contains(iv, x) == RLe(iv.min, x) /\ RLe(x, iv.max)

\* a faulty variant: the bounds are surrounded
Interval_surrounds_bounds(iv, x) == RLe(iv.min, x) /\ RLe(x, iv.max)

Interval_surrounds(iv, x) == RLt(iv.min, x) /\ RLt(x, iv.max)

(***************************************************************************)
(* Ray  (src/src/vectors/ray.rs)                                           *)
(***************************************************************************)
Ray_from(origin, direction, time) ==
    [origin |-> origin, direction |-> direction, time |-> time]

Ray_new == Ray_from(Vec3_new, Vec3_new, R(0))

Ray_at(ray, t) == Vec3_add(ray.origin, Vec3_scale(t, ray.direction))

(***************************************************************************)
(* Materials: the constructors  (src/src/materials/*.rs)                   *)
(***************************************************************************)
Lambertian_from(color) ==
    [kind |-> "lambertian", albedo |-> color, fuzz |-> R(0), index_of_refraction |-> R(0)]

Lambertian_new == Lambertian_from(Vec3_new)

Metal_from(albedo, fuzz) ==
    [kind |-> "metal", albedo |-> albedo,
     fuzz |-> IF RLt(fuzz, R(1)) THEN fuzz ELSE R(1),
     index_of_refraction |-> R(0)]

Dielectric_from(index_of_refraction) ==
    [kind |-> "dielectric", albedo |-> Vec3_new, fuzz |-> R(0),
     index_of_refraction |-> index_of_refraction]

(***************************************************************************)
(* HitRecord  (src/src/traceable.rs)                                       *)
(***************************************************************************)
HitRecord_new ==
    [point |-> Vec3_new, normal |-> Vec3_new, parameter |-> R(0),
     ray_faces_outside |-> TRUE, material |-> Lambertian_new]

\* outward_normal.normalize() is computed and dropped: the normal is stored
\* as it was passed in
\* a faulty variant: the normal is stored without being turned against the ray
set_normal_face_unflipped(record, ray, outward_normal) ==
    [record EXCEPT !.ray_faces_outside = RLt(dot(ray.direction, outward_normal), R(0)),
                   !.normal = outward_normal]

set_normal_face(record, ray, outward_normal) ==
    LET faces == RLt(dot(ray.direction, outward_normal), R(0))
    IN  [record EXCEPT !.ray_faces_outside = faces,
                       !.normal = IF faces THEN outward_normal
                                  ELSE Vec3_neg(outward_normal)]

(***************************************************************************)
(* Sphere  (src/src/drawable/sphere.rs)                                    *)
(***************************************************************************)
Sphere_from(center, radius, material) ==
    [center |-> center, radius |-> radius, material |-> material,
     in_motion |-> FALSE, motion_blur_lerp_factor |-> Vec3_new]

Sphere_new_in_motion(center_start, center_end, radius, material) ==
    [center |-> center_start, radius |-> radius, material |-> material,
     in_motion |-> TRUE, motion_blur_lerp_factor |-> Vec3_sub(center_end, center_start)]

Sphere_center(s, time) ==
    IF s.in_motion THEN Vec3_add(s.center, Vec3_scale(time, s.motion_blur_lerp_factor))
    ELSE s.center

\* the coefficients a, half_b, c and the discriminant of the ray's quadratic
Sphere_coefficients(origin_vector, direction, radius, half_b) ==
    [a |-> Vec3_magnitude(direction),
     half_b |-> half_b,
     c |-> RSub(dot(origin_vector, origin_vector), RMul(radius, radius)),
     discriminant |->
        RSub(RMul(half_b, half_b),
             RMul(Vec3_magnitude(direction),
                  RSub(dot(origin_vector, origin_vector), RMul(radius, radius))))]

Sphere_quadratic_from(origin_vector, direction, radius) ==
    Sphere_coefficients(origin_vector, direction, radius, dot(origin_vector, direction))

Sphere_quadratic(s, ray) ==
    Sphere_quadratic_from(
        Vec3_sub(ray.origin, IF s.in_motion THEN Sphere_center(s, ray.time) ELSE s.center),
        ray.direction, s.radius)

\* the two roots, smaller first (for a > 0)
Sphere_roots_from(q, discriminant_root) ==
    <<RDiv(RSub(RNeg(q.half_b), discriminant_root), q.a),
      RDiv(RAdd(RNeg(q.half_b), discriminant_root), q.a)>>

Sphere_roots(q) == Sphere_roots_from(q, RSqrt(q.discriminant))

\* the root Sphere::hit accepts (the caller has checked that one is accepted)
Sphere_pick_root(roots, ray_parameter) ==
    IF ~Interval_surrounds(ray_parameter, roots[1]) THEN roots[2] ELSE roots[1]

\* a faulty variant: the outward normal is taken with the size of the
\* radius, whatever its sign
Sphere_fill_unsigned(s, ray, record, root, point) ==
    [set_normal_face([record EXCEPT !.parameter = root, !.point = point], ray,
                     Vec3_div(Vec3_sub(point, s.center), <<Abs(s.radius[1]), s.radius[2]>>))
     EXCEPT !.material = s.material]

\* the record Sphere::hit fills once it has accepted `root`
Sphere_fill(s, ray, record, root, point) ==
    [set_normal_face([record EXCEPT !.parameter = root, !.point = point], ray,
                     Vec3_div(Vec3_sub(point, s.center), s.radius))
     EXCEPT !.material = s.material]

Sphere_hit_at(s, ray, record, root) ==
    [hit |-> TRUE, record |-> Sphere_fill(s, ray, record, root, Ray_at(ray, root))]

\* a faulty variant: the parameter is written before the root is tested
Sphere_hit_roots_early(s, ray, ray_parameter, record, roots) ==
    IF /\ ~Interval_surrounds(ray_parameter, roots[1])
       /\ ~Interval_surrounds(ray_parameter, roots[2])
    THEN [hit |-> FALSE, record |-> [record EXCEPT !.parameter = roots[1]]]
    ELSE Sphere_hit_at(s, ray, record, Sphere_pick_root(roots, ray_parameter))

Sphere_hit_roots(s, ray, ray_parameter, record, roots) ==
    IF /\ ~Interval_surrounds(ray_parameter, roots[1])
       /\ ~Interval_surrounds(ray_parameter, roots[2])
    THEN [hit |-> FALSE, record |-> record]
    ELSE Sphere_hit_at(s, ray, record, Sphere_pick_root(roots, ray_parameter))

Sphere_hit_q(s, ray, ray_parameter, record, q) ==
    IF RLt(q.discriminant, R(0)) THEN [hit |-> FALSE, record |-> record]
    ELSE Sphere_hit_roots(s, ray, ray_parameter, record, Sphere_roots(q))

\* Sphere::hit: [hit, record], the record untouched when hit is FALSE
Sphere_hit(s, ray, ray_parameter, record) ==
    Sphere_hit_q(s, ray, ray_parameter, record, Sphere_quadratic(s, ray))

(***************************************************************************)
(* Sphere, the first version  (src/src/sphere.rs); its HitRecord has no    *)
(* material                                                                *)
(***************************************************************************)
Sphere0_outside(root, ray_parameter_max, ray_parameter_min) ==
    RLe(root, ray_parameter_min) \/ RLe(ray_parameter_max, root)

\* the inner `let root` shadows the outer one and ends with its block: the
\* root used after the block is always the first one
Sphere0_pick_root(roots, ray_parameter_max, ray_parameter_min) == roots[1]

Sphere0_fill(s, ray, record, root, point) ==
    set_normal_face([record EXCEPT !.parameter = root, !.point = point], ray,
                    Vec3_div(Vec3_sub(point, s.center), s.radius))

Sphere0_hit_at(s, ray, record, root) ==
    [hit |-> TRUE, record |-> Sphere0_fill(s, ray, record, root, Ray_at(ray, root))]

Sphere0_hit_roots(s, ray, ray_parameter_max, ray_parameter_min, record, roots) ==
    IF /\ Sphere0_outside(roots[1], ray_parameter_max, ray_parameter_min)
       /\ Sphere0_outside(roots[2], ray_parameter_max, ray_parameter_min)
    THEN [hit |-> FALSE, record |-> record]
    ELSE Sphere0_hit_at(s, ray, record,
                        Sphere0_pick_root(roots, ray_parameter_max, ray_parameter_min))

Sphere0_hit_q(s, ray, ray_parameter_max, ray_parameter_min, record, q) ==
    IF RLt(q.discriminant, R(0)) THEN [hit |-> FALSE, record |-> record]
    ELSE Sphere0_hit_roots(s, ray, ray_parameter_max, ray_parameter_min, record,
                           Sphere_roots(q))

Sphere0_hit(s, ray, ray_parameter_max, ray_parameter_min, record) ==
    Sphere0_hit_q(s, ray, ray_parameter_max, ray_parameter_min, record,
                  Sphere_quadratic_from(Vec3_sub(ray.origin, s.center), ray.direction,
                                        s.radius))

(***************************************************************************)
(* Traceables  (src/src/traceable.rs)                                      *)
(***************************************************************************)
\* a faulty variant: every member is tested with the caller's whole interval
Traceables_member_interval_whole(ray_parameter, closest_parameter) == ray_parameter

\* the interval a member is tested with
Traceables_member_interval(ray_parameter, closest_parameter) ==
    Interval_new(ray_parameter.min, closest_parameter)

\* the loop of Traceables::hit from member k on; st = [temp_record,
\* closest_parameter, has_hit, record]
RECURSIVE Traceables_hit_loop(_, _, _, _, _)

Traceables_hit_step(objects, k, ray, ray_parameter, st, res) ==
    IF res.hit
    THEN Traceables_hit_loop(objects, k + 1, ray, ray_parameter,
            [temp_record |-> res.record, closest_parameter |-> res.record.parameter,
             has_hit |-> TRUE, record |-> res.record])
    ELSE Traceables_hit_loop(objects, k + 1, ray, ray_parameter,
            [st EXCEPT !.temp_record = res.record])

Traceables_hit_loop(objects, k, ray, ray_parameter, st) ==
    IF k > Len(objects)
    THEN [hit |-> st.has_hit, record |-> st.record]
    ELSE Traceables_hit_step(objects, k, ray, ray_parameter, st,
            Sphere_hit(objects[k], ray,
                       Traceables_member_interval(ray_parameter, st.closest_parameter),
                       st.temp_record))

Traceables_hit(objects, ray, ray_parameter, record) ==
    Traceables_hit_loop(objects, 1, ray, ray_parameter,
        [temp_record |-> HitRecord_new, closest_parameter |-> ray_parameter.max,
         has_hit |-> FALSE, record |-> record])

(***************************************************************************)
(* Colour encoding  (src/src/vectors/color.rs, src/src/color.rs)           *)
(***************************************************************************)
linear_to_gamma(linear_component) == RSqrt(linear_component)

\* Interval::clamp is called by write_color and is not in interval.rs
Interval_clamp(iv, x) ==
    IF RLt(x, iv.min) THEN iv.min
    ELSE IF RLt(iv.max, x) THEN iv.max
    ELSE x

\* Rust's `as i32` on an f64: truncation toward zero, saturating, NaN to 0
f64_as_i32(x) ==
    IF IsNaN(x) THEN 0
    ELSE IF x = PosInf THEN 2147483647
    ELSE IF x = NegInf THEN -2147483647 - 1
    ELSE IF x[1] >= 0 THEN x[1] \div x[2]
    ELSE 0 - ((0 - x[1]) \div x[2])

intensity == Interval_new(R(0), Q(999, 1000))

\* a faulty variant: the channel is encoded without being clamped
encode_channel_unclamped(x) == f64_as_i32(RMul(R(256), x))

\* one channel of write_color after the scaling: the integer that is printed
encode_channel(x) == f64_as_i32(RMul(R(256), Interval_clamp(intensity, x)))

\* format!("{} {} {}\n", ...): the line, without its newline
format_triple(r, g, b) == ToString(r) \o " " \o ToString(g) \o " " \o ToString(b)

\* the three integers of write_color (vectors/color.rs: with gamma correction)
RECURSIVE render_samples(_, _, _, _)

write_color_scaled(pixel_color, scale) ==
    <<encode_channel(linear_to_gamma(RMul(pixel_color[1], scale))),
      encode_channel(linear_to_gamma(RMul(pixel_color[2], scale))),
      encode_channel(linear_to_gamma(RMul(pixel_color[3], scale)))>>

write_color_channels(pixel_color, pixel_samples) ==
    write_color_scaled(pixel_color, RDiv(R(1), R(pixel_samples)))

format_channels(ch) == format_triple(ch[1], ch[2], ch[3])

write_color(pixel_color, pixel_samples) ==
    format_channels(write_color_channels(pixel_color, pixel_samples))

\* the three integers of write_color (color.rs: no gamma correction)
write_color0_scaled(pixel_color, scale) ==
    <<encode_channel(RMul(pixel_color[1], scale)),
      encode_channel(RMul(pixel_color[2], scale)),
      encode_channel(RMul(pixel_color[3], scale))>>

write_color0_channels(pixel_color, pixel_samples) ==
    write_color0_scaled(pixel_color, RDiv(R(1), R(pixel_samples)))

\* Camera::render, the loop over the samples of one pixel: outputs are the
\* colours get_ray_color returns, call after call; pixel_color += each
render_samples(outputs, pixel_samples, sample, pixel_color) ==
    IF sample >= pixel_samples
    THEN [pixel_color |-> pixel_color, taken |-> sample]
    ELSE render_samples(outputs, pixel_samples, sample + 1,
                        Vec3_add(pixel_color, outputs[sample + 1]))

\* scanline_data.push(write_color(pixel_color, self.pixel_samples))
render_pixel_written(sampled, pixel_samples) ==
    [pixel_color |-> sampled.pixel_color, taken |-> sampled.taken,
     channels |-> write_color_channels(sampled.pixel_color, pixel_samples),
     text |-> write_color(sampled.pixel_color, pixel_samples)]

render_pixel(outputs, pixel_samples) ==
    render_pixel_written(render_samples(outputs, pixel_samples, 0, Vec3_new), pixel_samples)

\* whether every square root write_color takes of this colour is rational
ColorHasSqrt(pixel_color, pixel_samples) ==
    \A k \in 1..3 : HasSqrt(RDiv(pixel_color[k], R(pixel_samples)))

(***************************************************************************)
(* Random vectors  (src/src/vector.rs)                                     *)
(***************************************************************************)
\* random_unit_sphere_vector keeps drawing until this holds of the draw
Vec3_accepted(vector) == RLt(Vec3_magnitude(vector), R(1))

\* what random_unit_sphere_vector returns for the draw it accepts
random_unit_sphere_vector(vector) == Vec3_normalize(vector)

Vec3_toward(random_vector, normal) ==
    IF RLt(R(0), dot(random_vector, normal)) THEN random_vector
    ELSE Vec3_neg(random_vector)

random_surface_hemisphere_vector(vector, normal) ==
    Vec3_toward(random_unit_sphere_vector(vector), normal)

(***************************************************************************)
(* Material::scatter  (src/src/materials/lambert.rs, metal.rs)             *)
(* `vector` is the draw random_unit_sphere_vector accepts during the call. *)
(***************************************************************************)
\* a faulty variant: the sum is used whatever its size
Lambertian_direction_unguarded(normal, sum) == sum

Lambertian_direction(normal, sum) ==
    IF Vec3_approx_zero(sum) THEN normal ELSE sum

Lambertian_scatter(material, ray_in, record, vector) ==
    [scatters |-> TRUE,
     attenuation |-> material.albedo,
     scattered_ray |->
        Ray_from(record.point,
                 Lambertian_direction(record.normal,
                     Vec3_add(record.normal, random_unit_sphere_vector(vector))),
                 R(0))]

\* the value Metal::scatter returns
Metal_scatter_result(scattered_ray, record) == TRUE

Metal_scatter_ray(material, record, reflected_vector, vector) ==
    Ray_from(record.point,
             Vec3_add(reflected_vector,
                      Vec3_scale(material.fuzz, random_unit_sphere_vector(vector))),
             R(0))

Metal_scatter_out(material, record, scattered_ray) ==
    [scatters |-> Metal_scatter_result(scattered_ray, record),
     attenuation |-> material.albedo,
     scattered_ray |-> scattered_ray]

Metal_scatter(material, ray_in, record, vector) ==
    Metal_scatter_out(material, record,
        Metal_scatter_ray(material, record,
            Vec3_reflect(Vec3_normalize(ray_in.direction), record.normal), vector))

(***************************************************************************)
(* Dielectric::scatter  (src/src/materials/dielectric.rs); `draw` is the   *)
(* value random_number() returns during the call                           *)
(***************************************************************************)
\* a faulty variant: the ratio of a front-face hit on every hit
Dielectric_refraction_ratio_front(material, record) ==
    RDiv(R(1), material.index_of_refraction)

Dielectric_refraction_ratio(material, record) ==
    IF record.ray_faces_outside
    THEN RDiv(R(1), material.index_of_refraction)
    ELSE material.index_of_refraction

f64_min(a, b) == IF RLt(b, a) THEN b ELSE a

f64_powf5(a) == RMul(RMul(RMul(a, a), RMul(a, a)), a)

Dielectric_cos_theta(unit_direction, normal) ==
    f64_min(dot(Vec3_neg(unit_direction), normal), R(1))

Dielectric_sin_theta(cos_theta) == RSqrt(RSub(R(1), RMul(cos_theta, cos_theta)))

reflectance_r0(refraction_ratio) ==
    RMul(RDiv(RSub(R(1), refraction_ratio), RAdd(R(1), refraction_ratio)),
         RDiv(RSub(R(1), refraction_ratio), RAdd(R(1), refraction_ratio)))

\* Schlick's approximation
reflectance(cos_theta, refraction_ratio) ==
    RAdd(reflectance_r0(refraction_ratio),
         RMul(RSub(R(1), reflectance_r0(refraction_ratio)),
              f64_powf5(RSub(R(1), cos_theta))))

\* Vec3::refract is called by scatter and is not in vector.rs: Snell's law
\* by the components perpendicular and parallel to the normal
Vec3_refract_perpendicular(uv, n, etai_over_etat) ==
    Vec3_scale(etai_over_etat,
               Vec3_add(uv, Vec3_scale(f64_min(dot(Vec3_neg(uv), n), R(1)), n)))

Vec3_refract_from(perpendicular, n) ==
    Vec3_add(perpendicular,
             Vec3_scale(RNeg(RSqrt(<<Abs(RSub(R(1), dot(perpendicular, perpendicular))[1]),
                                     RSub(R(1), dot(perpendicular, perpendicular))[2]>>)),
                        n))

Vec3_refract(uv, n, etai_over_etat) ==
    Vec3_refract_from(Vec3_refract_perpendicular(uv, n, etai_over_etat), n)

\* not_refractable || reflectance(cos_theta, refraction_ratio) > random_number()
Dielectric_reflects(refraction_ratio, cos_theta, draw) ==
    \/ RLt(R(1), RMul(refraction_ratio, Dielectric_sin_theta(cos_theta)))
    \/ RLt(draw, reflectance(cos_theta, refraction_ratio))

Dielectric_scatter_ratio(ray_in, record, unit_direction, refraction_ratio, draw) ==
    [scatters |-> TRUE,
     attenuation |-> V(1, 1, 1),
     refraction_ratio |-> refraction_ratio,
     reflected |->
        Dielectric_reflects(refraction_ratio,
                            Dielectric_cos_theta(unit_direction, record.normal), draw),
     scattered_ray |->
        Ray_from(record.point,
                 IF Dielectric_reflects(refraction_ratio,
                        Dielectric_cos_theta(unit_direction, record.normal), draw)
                 THEN Vec3_reflect(unit_direction, record.normal)
                 ELSE Vec3_refract(unit_direction, record.normal, refraction_ratio),
                 ray_in.time)]

\* the value returned, the two values written through the references, and
\* the locals refraction_ratio and the condition of the if
Dielectric_scatter(material, ray_in, record, draw) ==
    Dielectric_scatter_ratio(ray_in, record, Vec3_normalize(ray_in.direction),
                             Dielectric_refraction_ratio(material, record), draw)

\* Material::scatter, dispatched on the material of the record
Material_scatter(ray_in, record, vector) ==
    IF record.material.kind = "metal"
    THEN Metal_scatter(record.material, ray_in, record, vector)
    ELSE Lambertian_scatter(record.material, ray_in, record, vector)

(***************************************************************************)
(* Camera  (src/src/perspective_camera/camera.rs)                          *)
(***************************************************************************)
\* a faulty variant: the blend factor is taken from the x component
sky_blend_sideways(unit_direction) == RMul(Q(1, 2), RAdd(unit_direction[1], R(1)))

sky_blend(unit_direction) == RMul(Q(1, 2), RAdd(unit_direction[2], R(1)))

sky_lerp(blend_factor) ==
    Vec3_add(Vec3_scale(RSub(R(1), blend_factor), V(1, 1, 1)),
             Vec3_scale(blend_factor, <<Q(1, 2), Q(7, 10), R(1)>>))

\* the colour of a ray that hits nothing
sky(r) == sky_lerp(sky_blend(Vec3_normalize(r.direction)))

\* Rust's `as usize` on a finite f64: truncation, negative values and NaN to 0
f64_as_usize(x) == IF IsNaN(x) \/ RLt(x, R(0)) THEN 0 ELSE x[1] \div x[2]

usize_max(a, b) == IF a < b THEN b ELSE a

\* initialize: image_height = max(1, (image_width / aspect_ratio) as usize)
Camera_image_height(width, aspect) ==
    usize_max(f64_as_usize(RDiv(R(width), aspect)), 1)

\* f64::tan(degrees_to_radians(degrees) / 2.0) for the angles of the model
tan_half_degrees(degrees) ==
    CASE degrees = 0 -> R(0)
      [] degrees = 90 -> R(1)

Camera_new ==
    [aspect_ratio |-> R(1), image_width |-> 100, image_height |-> 0,
     image_dimensions |-> <<0, 0>>, center |-> Vec3_new, defocus_angle |-> 0, focus_distance |-> R(0),
     camera_origin |-> V(0, 0, -1), camera_target |-> V(0, 0, 0),
     up_vector |-> V(0, 1, 0), pixel_origin |-> Vec3_new,
     pixel_delta_u |-> Vec3_new, pixel_delta_v |-> Vec3_new,
     defocus_disc_u |-> Vec3_new, defocus_disc_v |-> Vec3_new,
     pixel_samples |-> 10, max_depth |-> 10, vfov |-> 90,
     u |-> Vec3_new, v |-> Vec3_new, w |-> Vec3_new]

\* initialize, statement by statement: each operator is the camera after the
\* assignments it names
Camera_set_height(c) ==
    [c EXCEPT !.image_height = Camera_image_height(c.image_width, c.aspect_ratio)]

Camera_set_center(c) == [c EXCEPT !.center = c.camera_origin]

Camera_viewport_height(c) ==
    RMul(RMul(R(2), tan_half_degrees(c.vfov)), c.focus_distance)

Camera_viewport_width(c) ==
    RDiv(RMul(Camera_viewport_height(c), R(c.image_width)), R(c.image_height))

Camera_set_w(c) ==
    [c EXCEPT !.w = Vec3_normalize(Vec3_sub(c.camera_origin, c.camera_target))]

Camera_set_u(c) == [c EXCEPT !.u = Vec3_normalize(Vec3_cross(c.up_vector, c.w))]

Camera_set_v(c) == [c EXCEPT !.v = Vec3_cross(c.w, c.u)]

Camera_viewport_u_vector(c) == Vec3_scale(Camera_viewport_width(c), c.u)

Camera_viewport_v_vector(c) == Vec3_scale(Camera_viewport_height(c), Vec3_neg(c.v))

Camera_set_deltas(c) ==
    [c EXCEPT !.pixel_delta_u = Vec3_div(Camera_viewport_u_vector(c), R(c.image_width)),
              !.pixel_delta_v = Vec3_div(Camera_viewport_v_vector(c), R(c.image_height))]

Camera_viewport_origin(c) ==
    Vec3_sub(Vec3_sub(Vec3_sub(c.center, Vec3_scale(c.focus_distance, c.w)),
                      Vec3_div(Camera_viewport_u_vector(c), R(2))),
             Vec3_div(Camera_viewport_v_vector(c), R(2)))

Camera_set_pixel_origin(c) ==
    [c EXCEPT !.pixel_origin =
        Vec3_add(Camera_viewport_origin(c),
                 Vec3_scale(Q(1, 2), Vec3_add(c.pixel_delta_u, c.pixel_delta_v)))]

Camera_defocus_radius(c) == RMul(c.focus_distance, tan_half_degrees(c.defocus_angle))

Camera_set_defocus_disc(c) ==
    [c EXCEPT !.defocus_disc_u = Vec3_scale(Camera_defocus_radius(c), c.u),
              !.defocus_disc_v = Vec3_scale(Camera_defocus_radius(c), c.v)]

Camera_set_basis(c) == Camera_set_v(Camera_set_u(Camera_set_w(c)))

Camera_initialize(c) ==
    Camera_set_defocus_disc(Camera_set_pixel_origin(Camera_set_deltas(
        Camera_set_basis(Camera_set_center(Camera_set_height(c))))))

(***************************************************************************)
(* Camera, the version without defocus blur  (src/src/camera/camera.rs);   *)
(* its fields are those of Camera_new but the defocus ones                 *)
(***************************************************************************)
\* center is assigned camera_origin, and then Point3::new()
Camera1_set_center(c) ==
    [[c EXCEPT !.center = c.camera_origin,
               !.image_dimensions = <<c.image_width, c.image_height>>]
        EXCEPT !.center = Vec3_new]

Camera1_focal_length(c) == Vec3_length(Vec3_sub(c.camera_origin, c.camera_target))

Camera1_viewport_height(c) ==
    RMul(RMul(R(2), tan_half_degrees(c.vfov)), Camera1_focal_length(c))

Camera1_viewport_width(c) == RMul(Camera1_viewport_height(c), c.aspect_ratio)

Camera1_set_w(c) ==
    [c EXCEPT !.w = Vec3_normalize(Vec3_sub(c.camera_origin, c.camera_target))]

Camera1_set_v(c) == [c EXCEPT !.v = Vec3_cross(c.up_vector, c.w)]

\* u is computed from w and the u the camera held before the call
Camera1_set_u(c) == [c EXCEPT !.u = Vec3_cross(c.w, c.u)]

Camera1_set_basis(c) == Camera1_set_u(Camera1_set_v(Camera1_set_w(c)))

Camera1_viewport_u_vector(c) == Vec3_scale(Camera1_viewport_width(c), c.u)

Camera1_viewport_v_vector(c) == Vec3_scale(Camera1_viewport_height(c), Vec3_neg(c.v))

Camera1_set_deltas(c) ==
    [c EXCEPT !.pixel_delta_u = Vec3_div(Camera1_viewport_u_vector(c), R(c.image_width)),
              !.pixel_delta_v = Vec3_div(Camera1_viewport_v_vector(c), R(c.image_height))]

Camera1_viewport_origin(c) ==
    Vec3_sub(Vec3_sub(Vec3_sub(c.center, Vec3_scale(Camera1_focal_length(c), c.w)),
                      Vec3_div(Camera1_viewport_u_vector(c), R(2))),
             Vec3_div(Camera1_viewport_v_vector(c), R(2)))

Camera1_set_pixel_origin(c) ==
    [c EXCEPT !.pixel_origin =
        Vec3_add(Vec3_add(Camera1_viewport_origin(c), Vec3_scale(Q(1, 2), c.pixel_delta_u)),
                 Vec3_scale(Q(1, 2), c.pixel_delta_v))]

Camera1_initialize(c) ==
    Camera1_set_pixel_origin(Camera1_set_deltas(
        Camera1_set_basis(Camera1_set_center(Camera_set_height(c)))))

\* get_ray: the origin of every sampled ray
Camera1_ray_origin(c) == c.center

(***************************************************************************)
(* Camera, the first version with a fixed viewport  (src/src/camera.rs)    *)
(***************************************************************************)
Camera0_viewport_width(c) == RMul(R(2), c.aspect_ratio)

Camera0_set_deltas(c) ==
    [c EXCEPT !.pixel_delta_u =
                  Vec3_div(<<Camera0_viewport_width(c), R(0), R(0)>>, R(c.image_width)),
              !.pixel_delta_v = Vec3_div(V(0, -2, 0), R(c.image_height))]

\* focal_length = 1.0, viewport_height = 2.0
Camera0_viewport_origin(c) ==
    Vec3_sub(Vec3_sub(Vec3_sub(c.center, V(0, 0, 1)),
                      Vec3_div(<<Camera0_viewport_width(c), R(0), R(0)>>, R(2))),
             Vec3_div(V(0, -2, 0), R(2)))

Camera0_set_pixel_origin(c) ==
    [c EXCEPT !.pixel_origin =
        Vec3_add(Vec3_add(Camera0_viewport_origin(c), Vec3_scale(Q(1, 2), c.pixel_delta_u)),
                 Vec3_scale(Q(1, 2), c.pixel_delta_v))]

Camera0_initialize(c) ==
    Camera0_set_pixel_origin(Camera0_set_deltas(
        [Camera_set_height(c) EXCEPT
            !.image_dimensions = <<c.image_width, Camera_set_height(c).image_height>>,
            !.center = V(0, 0, 0)]))

(***************************************************************************)
(* The entry point without a camera object  (src/src/main.rs)              *)
(***************************************************************************)
\* set_image_configuration: the width is the program's argument, the
\* aspect ratio is 16/9
set_image_configuration(image_width_argument) ==
    <<image_width_argument,
      IF f64_as_usize(RDiv(R(image_width_argument), Q(16, 9))) < 1
      THEN 1 ELSE f64_as_usize(RDiv(R(image_width_argument), Q(16, 9)))>>

\* <<viewport_width, viewport_height>>
set_camera_configuration(dimensions) ==
    <<RMul(R(2), RDiv(R(dimensions[1]), R(dimensions[2]))), R(2)>>

\* <<the viewport vectors, the pixel deltas>>
set_vectors(viewport_dimensions, image_dimensions) ==
    << << <<viewport_dimensions[1], R(0), R(0)>>,
          <<R(0), RNeg(viewport_dimensions[2]), R(0)>> >>,
       << Vec3_div(<<viewport_dimensions[1], R(0), R(0)>>, R(image_dimensions[1])),
          Vec3_div(<<R(0), RNeg(viewport_dimensions[2]), R(0)>>, R(image_dimensions[2])) >> >>

main_viewport_origin(camera_center, focal_length, viewport_vectors) ==
    Vec3_sub(Vec3_sub(Vec3_sub(camera_center, <<R(0), R(0), focal_length>>),
                      Vec3_div(viewport_vectors[1], R(2))),
             Vec3_div(viewport_vectors[2], R(2)))

\* viewport_origin + 0.5 * pixel_deltas.0 + pixel_deltas.1
main_pixel_origin(viewport_origin, pixel_deltas) ==
    Vec3_add(Vec3_add(viewport_origin, Vec3_scale(Q(1, 2), pixel_deltas[1])),
             pixel_deltas[2])

\* what main hands to render, and viewport_origin, a local of main
main_arguments(image_dimensions, vectors) ==
    [pixel_deltas |-> vectors[2],
     viewport_origin |-> main_viewport_origin(V(0, 0, 0), R(1), vectors[1]),
     pixel_origin |-> main_pixel_origin(main_viewport_origin(V(0, 0, 0), R(1), vectors[1]),
                                        vectors[2]),
     camera_center |-> V(0, 0, 0),
     image_dimensions |-> image_dimensions]

main_configured(image_dimensions) ==
    main_arguments(image_dimensions,
                   set_vectors(set_camera_configuration(image_dimensions), image_dimensions))

main(image_width_argument) == main_configured(set_image_configuration(image_width_argument))

\* render: the centre of pixel (i, j)
main_pixel_center(m, i, j) ==
    Vec3_add(Vec3_add(m.pixel_origin, Vec3_scale(R(i), m.pixel_deltas[1])),
             Vec3_scale(R(j), m.pixel_deltas[2]))

\* main: the two spheres of the scene
main_world ==
    <<Sphere_from(V(0, 0, -1), Q(1, 2), Lambertian_new),
      Sphere_from(<<R(0), Q(-201, 2), R(-1)>>, R(100), Lambertian_new)>>

\* Traceables::hit with two f64 bounds, as main.rs calls it.  The bounds
\* reach every member in the order the caller gave them; the parameter of
\* the closest hit so far replaces the first of them (closest_first) or the
\* second.  st = [temp_record, closest_parameter, has_hit, record]
Traceables0_first(first, closest_first, st) ==
    IF closest_first THEN st.closest_parameter ELSE first

Traceables0_second(second, closest_first, st) ==
    IF closest_first THEN second ELSE st.closest_parameter

RECURSIVE Traceables0_hit_loop(_, _, _, _, _, _, _)

Traceables0_hit_step(objects, k, r, first, second, closest_first, st, res) ==
    IF res.hit
    THEN Traceables0_hit_loop(objects, k + 1, r, first, second, closest_first,
            [temp_record |-> res.record, closest_parameter |-> res.record.parameter,
             has_hit |-> TRUE, record |-> res.record])
    ELSE Traceables0_hit_loop(objects, k + 1, r, first, second, closest_first,
            [st EXCEPT !.temp_record = res.record])

Traceables0_hit_loop(objects, k, r, first, second, closest_first, st) ==
    IF k > Len(objects)
    THEN [hit |-> st.has_hit, record |-> st.record]
    ELSE Traceables0_hit_step(objects, k, r, first, second, closest_first, st,
            Sphere0_hit(objects[k], r, Traceables0_first(first, closest_first, st),
                        Traceables0_second(second, closest_first, st), st.temp_record))

Traceables0_hit(objects, r, first, second, rec, closest_first) ==
    Traceables0_hit_loop(objects, 1, r, first, second, closest_first,
        [temp_record |-> HitRecord_new,
         closest_parameter |-> IF closest_first THEN first ELSE second,
         has_hit |-> FALSE, record |-> rec])

\* get_ray_color of main.rs: the colour of the normal on a hit, the sky otherwise
main_get_ray_color_from(r, res) ==
    [hit |-> res.hit, record |-> res.record,
     color |-> IF res.hit
               THEN Vec3_scale(Q(1, 2), Vec3_add(res.record.normal, V(1, 1, 1)))
               ELSE sky(r)]

main_get_ray_color(r, objects, closest_first) ==
    main_get_ray_color_from(r,
        Traceables0_hit(objects, r, R(0), PosInf, HitRecord_new, closest_first))

(***************************************************************************)
(* The random generator  (src/src/math/rt_math.rs).  rand::thread_rng() is *)
(* the generator of the calling thread, which the rand crate seeds from    *)
(* the operating system when the thread first uses it.  A generator is     *)
(* modelled by the values it is going to return.                           *)
(***************************************************************************)
\* rand::thread_rng() called on `thread`; `entropy` is what the operating
\* system seeded each thread's generator with
thread_rng(entropy, thread) == entropy[thread]

\* random_number(): the value returned and the generator after the call
random_number(rng) == [value |-> Head(rng), rng |-> Tail(rng)]

\* pixel_sample_square, given its two draws
Camera_pixel_sample_square(c, x, y) ==
    Vec3_add(Vec3_scale(RAdd(Q(-1, 2), x), c.pixel_delta_u),
             Vec3_scale(RAdd(Q(-1, 2), y), c.pixel_delta_v))

Camera_pixel_center(c, i, j) ==
    Vec3_add(Vec3_add(c.pixel_origin, Vec3_scale(R(i), c.pixel_delta_u)),
             Vec3_scale(R(j), c.pixel_delta_v))

\* the origin of a sampled ray; the cameras of the model have no defocus
\* disc (sample_defocus_disc calls Vec3::random_unit_disk_point, which
\* vector.rs does not define)
Camera_ray_origin(c) ==
    IF c.defocus_angle <= 0 THEN c.center ELSE CHOOSE k \in {} : FALSE

\* get_ray(i, j) given its draws: px, py and the time of the ray
Camera_get_ray_drawn(c, i, j, px, py, ray_time) ==
    Ray_from(Camera_ray_origin(c),
             Vec3_sub(Vec3_add(Camera_pixel_center(c, i, j),
                               Camera_pixel_sample_square(c, px, py)),
                      Camera_ray_origin(c)),
             ray_time)

Camera_get_ray_time(c, i, j, px, py, drawn) ==
    [ray |-> Camera_get_ray_drawn(c, i, j, px, py, drawn.value), rng |-> drawn.rng]

Camera_get_ray_py(c, i, j, px, drawn) ==
    Camera_get_ray_time(c, i, j, px, drawn.value, random_number(drawn.rng))

Camera_get_ray_px(c, i, j, drawn) ==
    Camera_get_ray_py(c, i, j, drawn.value, random_number(drawn.rng))

\* get_ray(i, j) called on a thread whose generator is rng: the ray and the
\* generator after the three calls of random_number
Camera_get_ray(c, i, j, rng) == Camera_get_ray_px(c, i, j, random_number(rng))

(***************************************************************************)
(* The inputs the operations are applied to                                 *)
(***************************************************************************)
MaxObjects == 2

Grey == <<Q(1, 2), Q(1, 2), Q(1, 2)>>

SphereCatalog ==
    { Sphere_from(V(0, 0, -2), R(1), Lambertian_from(Grey)),
      Sphere_from(V(3, 0, -5), R(1), Metal_from(V(1, 1, 1), R(2))),
      Sphere_from(V(0, 0, -5), R(-1), Lambertian_from(V(1, 0, 0))),
      Sphere_from(V(0, 0, -5), R(2), Metal_from(Grey, R(0))) }

RayOrigins == { V(0, 0, 0), V(1, 0, 0), V(0, 0, -2) }

RayDirections == { V(0, 0, -1), V(0, 0, -2), V(0, 0, 1), V(3, 0, -4) }

Rays == { Ray_from(o, d, R(0)) : o \in RayOrigins, d \in RayDirections }

Intervals ==
    { Interval_new(Q(1, 10), PosInf), Interval_new(R(0), R(1)),
      Interval_new(R(1), PosInf), Interval_new(R(2), R(6)) }

\* what the rejection loop of random_unit_sphere_vector may draw; the zero
\* vector is random_in_range(-1.0, 1.0) when random_number() returns 0.5
\* three times
RandomDraws ==
    { Vec3_new, <<R(0), R(0), Q(-1, 2)>>, <<R(0), R(0), Q(1, 2)>>, <<Q(1, 2), R(0), R(0)>>,
      <<Q(3, 10), R(0), Q(-2, 5)>>, V(1, 1, 1) }

\* a record that an earlier hit has filled
UsedRecord ==
    [point |-> V(9, 9, 9), normal |-> V(0, 1, 0), parameter |-> R(9),
     ray_faces_outside |-> FALSE, material |-> Lambertian_from(V(0, 1, 0))]

PriorRecords == { HitRecord_new, UsedRecord }

\* the sequences of n distinct members of S
RECURSIVE SeqsOf(_, _)
SeqsOf(S, n) ==
    IF n = 0 THEN { <<>> }
    ELSE { Append(w, x) : w \in SeqsOf(S, n - 1), x \in S } \ 
         { w \in { Append(w, x) : w \in SeqsOf(S, n - 1), x \in S } :
              \E i \in 1..(n - 1) : w[i] = w[n] }

Worlds == UNION { SeqsOf(SphereCatalog, n) : n \in 0..MaxObjects }

\* every square root taken while the ray is tested against the sphere is rational
SphereRayOk(s, ray) == HasSqrt(Sphere_quadratic(s, ray).discriminant)

RayOk(objects, ray) ==
    /\ HasLength(ray.direction)
    /\ \A k \in 1..Len(objects) : SphereRayOk(objects[k], ray)

FuzzValues == { R(-2), Q(-1, 2), R(0), Q(1, 2), R(1), Q(3, 2), R(2), PosInf, NaN }

ChannelSums == { R(-1), R(0), Q(1, 4), R(1), R(4), R(100), PosInf, NaN }

SampleCounts == { 1, 4 }

\* the worker threads of the pool
MaxThreads == 2

Threads == 1..MaxThreads

\* values of random_number(): the pixel offsets 0 and -3/8
DrawValues == { Q(1, 2), Q(1, 8) }

\* what a generator may return in three calls
Streams == { <<x, y, z>> : x \in DrawValues, y \in DrawValues, z \in DrawValues }

Entropies == [Threads -> Streams]

\* a camera that looks down -z through a one-pixel viewport at distance 4
SampleCamera ==
    Camera_initialize([Camera_new EXCEPT !.image_width = 1, !.camera_origin = V(0, 0, 0),
                                         !.camera_target = V(0, 0, -1),
                                         !.focus_distance = R(4)])

NoArg ==
    [kind |-> "none", ray |-> Ray_new, sphere |-> Sphere_from(Vec3_new, R(1), Lambertian_new),
     world |-> <<>>, interval |-> Interval_new(R(0), R(0)), record |-> HitRecord_new,
     vector |-> Vec3_new, fuzz |-> R(0), color |-> Vec3_new, samples |-> 1,
     camera |-> Camera_new, pixel |-> <<0, 0>>, entropy |-> <<>>, thread |-> 1,
     x |-> R(0), outputs |-> <<>>]

\* intervals of ray parameters and of colour channels, the constants of
\* Interval, an interval of one point and one whose bounds are swapped
IntervalCatalog ==
    Intervals \cup { intensity, Interval_EMPTY, Interval_UNIVERSE, Interval_default,
                     Interval_new(R(1), R(1)), Interval_new(R(5), R(0)),
                     Interval_new(R(-2), R(3)) }

IntervalPoints ==
    { NegInf, R(-3), R(-2), R(0), Q(1, 10), Q(1, 2), Q(999, 1000), R(1), R(2), R(3),
      R(5), R(6), R(7), PosInf, NaN }

IntervalArgs ==
    { [NoArg EXCEPT !.kind = "interval", !.interval = iv, !.x = x] :
        iv \in IntervalCatalog, x \in IntervalPoints }

SphereArgs ==
    { [NoArg EXCEPT !.kind = "sphere", !.sphere = s, !.ray = r, !.interval = iv,
                    !.record = rec] :
        s \in SphereCatalog, r \in Rays, iv \in Intervals, rec \in PriorRecords }

WorldArgs ==
    { [NoArg EXCEPT !.kind = "world", !.world = w, !.ray = r, !.interval = iv,
                    !.record = rec] :
        w \in Worlds, r \in Rays, iv \in Intervals, rec \in PriorRecords }

ScatterArgs ==
    { [NoArg EXCEPT !.kind = "scatter", !.sphere = s, !.ray = r, !.vector = v] :
        s \in SphereCatalog, r \in Rays, v \in RandomDraws }

FuzzArgs ==
    { [NoArg EXCEPT !.kind = "fuzz", !.fuzz = f, !.color = Grey] : f \in FuzzValues }

ColorArgs ==
    { [NoArg EXCEPT !.kind = "color", !.color = <<r, g, b>>, !.samples = n] :
        r \in ChannelSums, g \in ChannelSums, b \in ChannelSums, n \in SampleCounts }

\* the interval the estimator tests every ray with
TraceInterval == Interval_new(Q(1, 10), PosInf)

\* spheres that move while the shutter is open, along the view axis and
\* across it
MovingSpheres ==
    { Sphere_new_in_motion(V(0, 0, -2), V(0, 0, -4), R(1), Lambertian_from(Grey)),
      Sphere_new_in_motion(V(0, 0, -2), V(2, 0, -2), R(1), Lambertian_from(Grey)),
      Sphere_new_in_motion(V(0, 0, -5), V(0, 0, -5), R(2), Metal_from(Grey, R(0))) }

RayTimes == { R(0), Q(1, 2), R(1) }

MovingArgs ==
    { [NoArg EXCEPT !.kind = "moving", !.sphere = s, !.interval = TraceInterval,
                    !.ray = Ray_from(r.origin, r.direction, t)] :
        s \in MovingSpheres, r \in Rays, t \in RayTimes }

\* where the camera is and what it looks at: the defaults of Camera::new, a
\* camera at the origin, one placed off the axis, one looking down at an
\* angle (up_vector neither parallel nor orthogonal to the view direction)
CameraPlacements ==
    { <<V(0, 0, -1), V(0, 0, 0)>>, <<V(0, 0, 0), V(0, 0, -1)>>, <<V(3, 0, 4), V(0, 0, 0)>>,
      <<V(0, 3, 4), V(0, 0, 0)>> }

\* the u the camera holds before initialize is called
PriorBasis == { Vec3_new, V(1, 0, 0), V(0, 0, 1) }

CameraConfigurations ==
    { [Camera_new EXCEPT !.camera_origin = pl[1], !.camera_target = pl[2],
                         !.image_width = iw, !.aspect_ratio = ar, !.u = pu,
                         !.focus_distance = R(2)] :
        pl \in CameraPlacements, iw \in {1, 2, 4}, ar \in {R(1), R(2)}, pu \in PriorBasis }

CameraArgs == { [NoArg EXCEPT !.kind = "camera", !.camera = c] : c \in CameraConfigurations }

\* the width given to the entry point on the command line
MainWidths == { 1, 2, 4, 9 }

\* the rays and scenes main.rs's estimator is applied to: the scene of main
\* and scenes of the catalogue; `samples` chooses which bound the collection
\* replaces by the closest hit (1: the first, 2: the second)
EstimatorRays ==
    { Ray_from(o, d, R(0)) :
        o \in { V(0, 0, 0), V(0, 0, -1) },
        d \in { V(0, 0, -1), V(0, 0, -2), V(0, 0, 1), V(0, -1, 0), V(0, 1, 0),
                V(3, 0, -4), V(0, 3, -4) } }

EstimatorWorlds ==
    { main_world, <<>> } \cup { <<sp>> : sp \in SphereCatalog }
        \cup { <<main_world[1]>>, <<main_world[2], main_world[1]>> }

EstimatorArgs ==
    { [NoArg EXCEPT !.kind = "estimator", !.ray = r, !.world = w, !.samples = n] :
        r \in EstimatorRays, w \in EstimatorWorlds, n \in {1, 2} }

MainArgs == { [NoArg EXCEPT !.kind = "main", !.samples = iw] : iw \in MainWidths }

\* what get_ray_color returns for the samples of a pixel: black, white and
\* the sky colour at the zenith scaled by a quarter
EstimatorOutputs == { V(0, 0, 0), V(1, 1, 1), <<Q(1, 8), Q(7, 40), Q(1, 4)>>,
                      <<Q(1, 4), Q(1, 4), R(1)>> }

\* more outputs than any pixel of the model takes samples
OutputStreams ==
    { <<a, b, c, d, e>> : a \in EstimatorOutputs, b \in EstimatorOutputs,
                          c \in {V(0, 0, 0), V(1, 1, 1)}, d \in EstimatorOutputs,
                          e \in {V(1, 1, 1)} }

PixelArgs ==
    { [NoArg EXCEPT !.kind = "pixel", !.outputs = o, !.samples = n] :
        o \in OutputStreams, n \in SampleCounts }

\* sums normal + random unit vector around the threshold 1e-8 of approx_zero
SmallChannels == { R(0), Q(1, 1000000000), Q(-1, 1000000000), Q(1, 100000000), Q(1, 2) }

SmallSums == { <<x, y, z>> : x \in SmallChannels, y \in SmallChannels, z \in SmallChannels }

DirectionArgs ==
    { [NoArg EXCEPT !.kind = "direction", !.vector = v, !.record = rec] :
        v \in SmallSums, rec \in { [HitRecord_new EXCEPT !.normal = V(0, 0, 1)] } }

\* hits of a dielectric surface of normal (0,0,1), from outside and from
\* inside: air, water (4/3) and a dense glass
RefractionIndices == { R(1), Q(4, 3), R(2) }

DielectricRays ==
    { Ray_from(V(0, 0, 1), d, t) : d \in { V(0, 0, -1), V(0, 0, -2), V(3, 0, -4), V(4, 0, -3) },
                                   t \in { R(0), Q(1, 2) } }

\* values of random_number(): 1/49 is the reflectance of water met head-on
ReflectionDraws == { R(0), Q(1, 49), Q(1, 20), Q(1, 2), Q(99, 100) }

DielectricArgs ==
    { [NoArg EXCEPT !.kind = "dielectric", !.ray = r, !.x = x,
                    !.record = [HitRecord_new EXCEPT !.normal = V(0, 0, 1),
                                                     !.ray_faces_outside = f,
                                                     !.material = Dielectric_from(ior)]] :
        r \in DielectricRays, x \in ReflectionDraws, f \in BOOLEAN,
        ior \in RefractionIndices }

\* whether the refracted direction of the hit is rational
RefractOk(material, unit_direction, record) ==
    HasSqrt(RSub(R(1),
        dot(Vec3_refract_perpendicular(unit_direction, record.normal,
                                       Dielectric_refraction_ratio(material, record)),
            Vec3_refract_perpendicular(unit_direction, record.normal,
                                       Dielectric_refraction_ratio(material, record)))))

SampleArgs ==
    { [NoArg EXCEPT !.kind = "sample", !.camera = SampleCamera, !.entropy = e,
                    !.thread = t] :
        e \in Entropies, t \in Threads }

ArgOk(a) ==
    CASE a.kind = "sphere" -> RayOk(<<a.sphere>>, a.ray)
      [] a.kind = "world" -> RayOk(a.world, a.ray)
      [] a.kind = "scatter" ->
            /\ RayOk(<<a.sphere>>, a.ray)
            /\ Sphere_hit(a.sphere, a.ray, TraceInterval, HitRecord_new).hit
            /\ Vec3_accepted(a.vector)
            /\ HasLength(a.vector)
      [] a.kind = "color" -> ColorHasSqrt(a.color, a.samples)
      [] a.kind = "dielectric" ->
            RefractOk(a.record.material, Vec3_normalize(a.ray.direction), a.record)
      [] a.kind = "pixel" ->
            ColorHasSqrt(render_samples(a.outputs, a.samples, 0, Vec3_new).pixel_color,
                         a.samples)
      [] a.kind = "moving" -> RayOk(<<a.sphere>>, a.ray)
      [] a.kind = "estimator" -> RayOk(a.world, a.ray)
      [] a.kind = "sample" ->
            HasLength(Camera_get_ray(a.camera, a.pixel[1], a.pixel[2],
                                     thread_rng(a.entropy, a.thread)).ray.direction)
      [] OTHER -> TRUE

(***************************************************************************)
(* The operations applied to one input each                                 *)
(***************************************************************************)
VARIABLES fn, arg, out

\* the estimator: the scene, the frame being executed and the frames below it
VARIABLES world, estimator, pc, ray, depth, record, vector, stack, color,
          max_depth, scatters, hit_tests

\* the render: the camera's configuration, the output file, the scanline workers
VARIABLES renderer, image_width, aspect_ratio, image_height, pixel_samples, shade,
          rpc, file, file_pixels, wpc, scanline_data, scanlines_done, observed,
          finished, stderr, pixels, written, camera

fnVars == <<fn, arg, out>>

cameraVars == <<renderer, image_width, aspect_ratio, image_height, pixel_samples, shade>>

workerVars == <<wpc, scanline_data, scanlines_done, observed, finished>>

renderVars == <<cameraVars, rpc, file, file_pixels, workerVars, stderr, pixels, written,
                camera>>

traceVars == <<world, estimator, pc, ray, depth, record, vector, stack, color,
               max_depth, scatters, hit_tests>>

vars == <<fnVars, traceVars, renderVars>>

NoOut == [hit |-> FALSE]

FnIdle == fn = "none" /\ arg = NoArg /\ out = NoOut

\* no call of the estimator is being followed
TraceQuiet ==
    /\ estimator = "none"
    /\ pc = "build"
    /\ ray = Ray_new
    /\ depth = 0
    /\ record = HitRecord_new
    /\ vector = Vec3_new
    /\ stack = <<>>
    /\ color = Vec3_new
    /\ max_depth = 0
    /\ scatters = 0
    /\ hit_tests = 0

TraceIdle == world = <<>> /\ TraceQuiet

RenderIdle ==
    /\ renderer = "none"
    /\ image_width = 1
    /\ aspect_ratio = R(1)
    /\ image_height = 0
    /\ pixel_samples = 1
    /\ shade = 0
    /\ rpc = "idle"
    /\ file = <<>>
    /\ file_pixels = <<>>
    /\ wpc = <<>>
    /\ scanline_data = <<>>
    /\ scanlines_done = 0
    /\ observed = <<>>
    /\ finished = <<>>
    /\ stderr = <<>>
    /\ pixels = <<>>
    /\ written = 0
    /\ camera = Camera_new

InitFn ==
    /\ fn = "none"
    /\ arg \in { a \in SphereArgs \cup WorldArgs \cup ScatterArgs \cup FuzzArgs \cup ColorArgs
                        \cup SampleArgs \cup IntervalArgs \cup MovingArgs \cup CameraArgs
                        \cup MainArgs \cup PixelArgs \cup DirectionArgs
                        \cup DielectricArgs \cup EstimatorArgs :
                    ArgOk(a) }
    /\ out = NoOut
    /\ TraceIdle
    /\ RenderIdle

Apply_Sphere_hit ==
    /\ fn = "none" /\ arg.kind = "sphere"
    /\ fn' = "Sphere_hit"
    /\ out' = Sphere_hit(arg.sphere, arg.ray, arg.interval, arg.record)
    /\ UNCHANGED <<arg, traceVars, renderVars>>

Apply_Sphere0_hit ==
    /\ fn = "none" /\ arg.kind = "sphere"
    /\ fn' = "Sphere0_hit"
    /\ out' = Sphere0_hit(arg.sphere, arg.ray, arg.interval.max, arg.interval.min,
                          arg.record)
    /\ UNCHANGED <<arg, traceVars, renderVars>>

Apply_Traceables_hit ==
    /\ fn = "none" /\ arg.kind = "world"
    /\ fn' = "Traceables_hit"
    /\ out' = Traceables_hit(arg.world, arg.ray, arg.interval, arg.record)
    /\ UNCHANGED <<arg, traceVars, renderVars>>

\* the sphere's material scatters the ray off the hit the estimator found
ScatterOut(rec, res) ==
    [scatters |-> res.scatters, attenuation |-> res.attenuation,
     scattered_ray |-> res.scattered_ray, record |-> rec]

ScatterOf(ray_in, rec, v) ==
    ScatterOut(rec, Material_scatter(ray_in, rec, v))

Apply_scatter ==
    /\ fn = "none" /\ arg.kind = "scatter"
    /\ fn' = IF arg.sphere.material.kind = "metal" THEN "Metal_scatter"
             ELSE "Lambertian_scatter"
    /\ out' = ScatterOf(arg.ray,
                  Sphere_hit(arg.sphere, arg.ray, TraceInterval, HitRecord_new).record,
                  arg.vector)
    /\ UNCHANGED <<arg, traceVars, renderVars>>

Apply_Metal_from ==
    /\ fn = "none" /\ arg.kind = "fuzz"
    /\ fn' = "Metal_from"
    /\ out' = Metal_from(arg.color, arg.fuzz)
    /\ UNCHANGED <<arg, traceVars, renderVars>>

Apply_write_color ==
    /\ fn = "none" /\ arg.kind = "color"
    /\ fn' = "write_color"
    /\ out' = [channels |-> write_color_channels(arg.color, arg.samples),
               text |-> write_color(arg.color, arg.samples)]
    /\ UNCHANGED <<arg, traceVars, renderVars>>

Apply_write_color0 ==
    /\ fn = "none" /\ arg.kind = "color"
    /\ fn' = "write_color0"
    /\ out' = [channels |-> write_color0_channels(arg.color, arg.samples)]
    /\ UNCHANGED <<arg, traceVars, renderVars>>

\* one sample of a pixel of an empty scene, traced on the thread arg.thread:
\* get_ray, then get_ray_color, which finds no hit
Sampled(res) == [ray |-> res.ray, rng |-> res.rng, color |-> sky(res.ray)]

Apply_get_ray ==
    /\ fn = "none" /\ arg.kind = "sample"
    /\ fn' = "get_ray"
    /\ out' = Sampled(Camera_get_ray(arg.camera, arg.pixel[1], arg.pixel[2],
                                     thread_rng(arg.entropy, arg.thread)))
    /\ UNCHANGED <<arg, traceVars, renderVars>>

Apply_Camera_initialize ==
    /\ fn = "none" /\ arg.kind = "camera"
    /\ fn' = "Camera_initialize"
    /\ out' = Camera_initialize(arg.camera)
    /\ UNCHANGED <<arg, traceVars, renderVars>>

Apply_Camera1_initialize ==
    /\ fn = "none" /\ arg.kind = "camera"
    /\ fn' = "Camera1_initialize"
    /\ out' = Camera1_initialize(arg.camera)
    /\ UNCHANGED <<arg, traceVars, renderVars>>

Apply_Dielectric_scatter ==
    /\ fn = "none" /\ arg.kind = "dielectric"
    /\ fn' = "Dielectric_scatter"
    /\ out' = Dielectric_scatter(arg.record.material, arg.ray, arg.record, arg.x)
    /\ UNCHANGED <<arg, traceVars, renderVars>>

\* Lambertian::scatter, the choice of the direction once the sum is known
Apply_Lambertian_direction ==
    /\ fn = "none" /\ arg.kind = "direction"
    /\ fn' = "Lambertian_direction"
    /\ out' = [direction |-> Lambertian_direction(arg.record.normal, arg.vector)]
    /\ UNCHANGED <<arg, traceVars, renderVars>>

\* Camera::render, one pixel: the samples and write_color
Apply_render_pixel ==
    /\ fn = "none" /\ arg.kind = "pixel"
    /\ fn' = "render_pixel"
    /\ out' = render_pixel(arg.outputs, arg.samples)
    /\ UNCHANGED <<arg, traceVars, renderVars>>

Apply_Camera0_initialize ==
    /\ fn = "none" /\ arg.kind = "camera"
    /\ fn' = "Camera0_initialize"
    /\ out' = Camera0_initialize(arg.camera)
    /\ UNCHANGED <<arg, traceVars, renderVars>>

\* main, up to its call of render
Apply_main_get_ray_color ==
    /\ fn = "none" /\ arg.kind = "estimator"
    /\ fn' = "main_get_ray_color"
    /\ out' = main_get_ray_color(arg.ray, arg.world, arg.samples = 1)
    /\ UNCHANGED <<arg, traceVars, renderVars>>

Apply_main ==
    /\ fn = "none" /\ arg.kind = "main"
    /\ fn' = "main"
    /\ out' = main(arg.samples)
    /\ UNCHANGED <<arg, traceVars, renderVars>>

\* Sphere::hit of a sphere in motion, for a ray that carries a time
Apply_Sphere_hit_moving ==
    /\ fn = "none" /\ arg.kind = "moving"
    /\ fn' = "Sphere_hit_moving"
    /\ out' = Sphere_hit(arg.sphere, arg.ray, arg.interval, arg.record)
    /\ UNCHANGED <<arg, traceVars, renderVars>>

Apply_Interval ==
    /\ fn = "none" /\ arg.kind = "interval"
    /\ fn' = "Interval"
    /\ out' = [contains |-> Interval_contains(arg.interval, arg.x),
               surrounds |-> Interval_surrounds(arg.interval, arg.x)]
    /\ UNCHANGED <<arg, traceVars, renderVars>>

NextFn ==
    \/ Apply_main_get_ray_color
    \/ Apply_Dielectric_scatter
    \/ Apply_Lambertian_direction
    \/ Apply_render_pixel
    \/ Apply_Camera0_initialize
    \/ Apply_main
    \/ Apply_Camera_initialize
    \/ Apply_Camera1_initialize
    \/ Apply_Sphere_hit_moving
    \/ Apply_Interval
    \/ Apply_get_ray
    \/ Apply_Sphere_hit
    \/ Apply_Sphere0_hit
    \/ Apply_Traceables_hit
    \/ Apply_scatter
    \/ Apply_Metal_from
    \/ Apply_write_color
    \/ Apply_write_color0

SpecFn == InitFn /\ [][NextFn]_vars

(***************************************************************************)
(* Camera::get_ray_color  (src/src/perspective_camera/camera.rs,           *)
(* src/src/camera.rs) as a machine: one frame is executed at a time, the   *)
(* frames of the callers wait on `stack` for the colour to multiply.       *)
(***************************************************************************)
MaxDepth == 3

Estimators == { "materials", "hemisphere" }

\* the test `depth <= 0` that ends the recursion
get_ray_color_exhausted(d) == d <= 0

\* a faulty variant: the recursive call is given the depth of its caller
get_ray_color_same_depth(d) == d

\* the depth the recursive call is given
get_ray_color_next_depth(d) == d - 1

\* camera.rs: the ray the hit is left along and the factor of its colour
hemisphere_scatter(rec, v) ==
    [scatters |-> TRUE,
     attenuation |-> Grey,
     scattered_ray |->
        Ray_from(rec.point, random_surface_hemisphere_vector(v, rec.normal), R(0))]

estimator_scatter(e, r, rec, v) ==
    IF e = "materials" THEN Material_scatter(r, rec, v) ELSE hemisphere_scatter(rec, v)

\* the scenes of the estimator: spheres centred on the z axis, for which the
\* draws along the axis keep every scattered ray exact
TraceCatalog ==
    { s \in SphereCatalog : s.center[1] = R(0) /\ s.center[2] = R(0) } \cup { Sphere_from(V(0, 0, 2), R(1), Metal_from(Grey, R(1))) }

OnAxis(v) == v[1] = R(0) /\ v[2] = R(0)

\* the rays render hands to the estimator, and the draws of the generator
TraceRays == { r \in Rays : OnAxis(r.origin) /\ OnAxis(r.direction) }

TraceDraws == { v \in RandomDraws : OnAxis(v) \/ ~Vec3_accepted(v) }

\* primary rays that look up and down: an empty scene bounces no ray, so
\* every direction of rational length is exact
SkyDirections == { V(0, 3, -4), V(0, -4, 3), V(0, 1, 0), V(0, -1, 0), V(2, 1, -2) }

SkyRays == { Ray_from(V(0, 0, 0), d, R(0)) : d \in SkyDirections }

\* a primary ray that starts 0.05 in front of the sphere at (0, 0, -2)
NearRays == { Ray_from(<<R(0), R(0), Q(-19, 20)>>, V(0, 0, -1), R(0)) }

\* the primary rays render hands to the estimator for this scene
PrimaryRays(objects) ==
    IF objects = <<>> THEN TraceRays \cup SkyRays ELSE TraceRays \cup NearRays

\* world.add(sphere)
Trace_add ==
    /\ pc = "build"
    /\ Len(world) < MaxObjects
    /\ \E s \in TraceCatalog : world' = Append(world, s)
    /\ UNCHANGED <<estimator, pc, ray, depth, record, vector, stack, color,
                   max_depth, scatters, hit_tests>>
    /\ UNCHANGED <<fnVars, renderVars>>

\* render calls get_ray_color(ray, max_depth, world)
Trace_call ==
    /\ pc = "build"
    /\ \E e \in Estimators, r \in PrimaryRays(world), d \in 0..MaxDepth :
          /\ RayOk(world, r)
          /\ estimator' = e
          /\ ray' = r
          /\ depth' = d
          /\ max_depth' = d
    /\ pc' = "entry"
    /\ UNCHANGED <<world, record, vector, stack, color, scatters, hit_tests>>
    /\ UNCHANGED <<fnVars, renderVars>>

\* depth <= 0: black, the scene is not tested
Trace_exhausted ==
    /\ pc = "entry"
    /\ get_ray_color_exhausted(depth)
    /\ record' = HitRecord_new
    /\ color' = Vec3_new
    /\ pc' = "return"
    /\ UNCHANGED <<world, estimator, ray, depth, vector, stack, max_depth,
                   scatters, hit_tests>>
    /\ UNCHANGED <<fnVars, renderVars>>

Trace_tested(res) ==
    /\ record' = res.record
    /\ pc' = IF res.hit THEN "scatter" ELSE "return"
    /\ color' = IF res.hit THEN color ELSE sky(ray)

\* world.hit(ray, Interval::new(0.1, INFINITY), &mut record)
Trace_test ==
    /\ pc = "entry"
    /\ ~get_ray_color_exhausted(depth)
    /\ Trace_tested(Traceables_hit(world, ray, TraceInterval, HitRecord_new))
    /\ hit_tests' = hit_tests + 1
    /\ UNCHANGED <<world, estimator, ray, depth, vector, stack, max_depth, scatters>>
    /\ UNCHANGED <<fnVars, renderVars>>

\* random_unit_sphere_vector draws a vector outside the unit sphere and draws again
Trace_reject ==
    /\ pc = "scatter"
    /\ \E v \in TraceDraws : ~Vec3_accepted(v) /\ vector' = v
    /\ UNCHANGED <<world, estimator, pc, ray, depth, record, stack, color,
                   max_depth, scatters, hit_tests>>
    /\ UNCHANGED <<fnVars, renderVars>>

Trace_scattered(res) ==
    IF res.scatters
    THEN /\ stack' = <<[attenuation |-> res.attenuation, depth |-> depth]>> \o stack
         /\ ray' = res.scattered_ray
         /\ depth' = get_ray_color_next_depth(depth)
         /\ scatters' = scatters + 1
         /\ pc' = "entry"
         /\ UNCHANGED color
    ELSE /\ color' = Vec3_new
         /\ pc' = "return"
         /\ UNCHANGED <<stack, ray, depth, scatters>>

\* the draw is accepted, the material scatters the ray, get_ray_color is called
\* for the scattered ray
Trace_scatter ==
    /\ pc = "scatter"
    /\ \E v \in TraceDraws :
          /\ Vec3_accepted(v)
          /\ HasLength(v)
          /\ RayOk(world, estimator_scatter(estimator, ray, record, v).scattered_ray)
          /\ vector' = v
          /\ Trace_scattered(estimator_scatter(estimator, ray, record, v))
    /\ UNCHANGED <<world, estimator, record, max_depth, hit_tests>>
    /\ UNCHANGED <<fnVars, renderVars>>

\* the callee has returned: attenuation * colour, and this frame returns in turn
Trace_return ==
    /\ pc = "return"
    /\ stack # <<>>
    /\ color' = Vec3_mul(Head(stack).attenuation, color)
    /\ depth' = Head(stack).depth
    /\ stack' = Tail(stack)
    /\ UNCHANGED <<world, estimator, pc, ray, record, vector, max_depth,
                   scatters, hit_tests>>
    /\ UNCHANGED <<fnVars, renderVars>>

\* the outermost call has returned to render
Trace_done ==
    /\ pc = "return"
    /\ stack = <<>>
    /\ pc' = "done"
    /\ UNCHANGED <<world, estimator, ray, depth, record, vector, stack, color,
                   max_depth, scatters, hit_tests>>
    /\ UNCHANGED <<fnVars, renderVars>>

InitTrace == FnIdle /\ TraceIdle /\ RenderIdle

Trace_progress ==
    \/ Trace_add
    \/ Trace_call
    \/ Trace_exhausted
    \/ Trace_test
    \/ Trace_scatter
    \/ Trace_return
    \/ Trace_done

NextTrace == Trace_progress \/ Trace_reject

\* what every step but a rejected draw changes
Trace_moved == <<world, pc, stack>>

\* Weak fairness of Trace_progress: the thread runs, and the generator does not
\* draw rejected vectors for ever.  The steps that test the scene are enabled
\* exactly while pc # "done" (Trace_CanScatter), which is written out here.
Trace_fair ==
    /\ WF_vars(Trace_done)
    /\ []<>(pc = "done") \/ []<><<Trace_moved' # Trace_moved>>_vars

SpecTrace == InitTrace /\ [][NextTrace]_vars /\ Trace_fair

(***************************************************************************)
(* Camera::render  (src/src/perspective_camera/camera.rs: scanlines traced  *)
(* in parallel; src/src/camera.rs: pixels traced and written in turn).      *)
(* The colour a pixel accumulates depends on the scene, the sampled rays    *)
(* and the draws of the estimator: it is an input, PixelSum.                *)
(***************************************************************************)
MaxWidth == 4

AspectRatios == { Q(4, 3), R(2), R(4) }

Renderers == { "parallel", "sequential" }

\* a faulty variant: the header gives the height before the width
ppm_header_swapped(width, height) ==
    <<"P3", ToString(height) \o " " \o ToString(width), "255">>

\* writeln!(file, "P3\n{} {}\n255", image_width, image_height): the three lines
ppm_header(width, height) ==
    <<"P3", ToString(width) \o " " \o ToString(height), "255">>

PixelSums ==
    << <<R(100), R(-1), Q(1, 4)>>, <<R(0), R(1), R(4)>>, <<Q(1, 4), Q(1, 4), R(1)>>,
       <<R(1), R(0), R(0)>>, <<R(4), R(100), R(-1)>> >>

Shades == 0..1

\* the sum of the samples of pixel (i, j) in the scene drawn
PixelSum(s, i, j) == PixelSums[((s + i + 2 * j) % Len(PixelSums)) + 1]

\* color.rs write_color: the line of a pixel, without gamma correction
write_color0(pixel_color, samples) ==
    format_channels(write_color0_channels(pixel_color, samples))

\* the body of the closure of map: the lines of scanline j, pixel 0 first
trace_scanline(width, samples, s, j) ==
    [i \in 1..width |-> write_color(PixelSum(s, i - 1, j), samples)]

\* a faulty variant: collect returns as soon as it is called
par_returned_or_not(pcs) == TRUE

\* collect returns once every closure has returned
par_all_returned(pcs) == \A j \in DOMAIN pcs : pcs[j] = "done"

\* a faulty variant: the rows in the order in which the closures returned
par_collect_as_completed(order, rows, height) ==
    [k \in 1..Len(order) |-> [j |-> order[k], data |-> rows[order[k]]]]

\* (0..image_height).into_par_iter().map(..).collect(): the rows in index order
par_collect(order, rows, height) ==
    [k \in 1..height |-> [j |-> k - 1, data |-> rows[k - 1]]]

scanline_pixels(row) ==
    [i \in 1..Len(row.data) |-> [j |-> row.j, i |-> i - 1, text |-> row.data[i]]]

\* `for scanline in pixels { for pixel in scanline`: the pixels in the order
\* in which the loops visit them
RECURSIVE write_order(_)
write_order(rows) ==
    IF rows = <<>> THEN <<>>
    ELSE scanline_pixels(Head(rows)) \o write_order(Tail(rows))

progress_line(completed, total) == ToString(completed) \o "/" \o ToString(total)

\* a faulty variant: the addition is not stored
fetch_add_lost(counter, n) == [previous |-> counter, value |-> counter]

\* AtomicUsize::fetch_add(n, SeqCst): one atomic step that stores counter + n
\* and returns the value it replaced
fetch_add(counter, n) == [previous |-> counter, value |-> counter + n]

\* a faulty variant: the error of the file operation is dropped
expect_ignored(ok, next) == next

\* Result::expect and `Err(e) => panic!`: the position render continues at
\* after a file operation, "aborted" when the operation returned an error
expect(ok, next) == IF ok THEN next ELSE "aborted"

\* the messages of the panics of render
CreatePanic == "Could not create file image.ppm"

HeaderPanic == "Failed to write PPM header to file"

WritePanic == "Failed to write to file"

\* the outcomes of File::create and of the write of the header
BeginOutcomes == { "ok", "create failed", "header failed" }

\* the camera main configures: it looks down -z from the origin
RenderCamera(width, aspect, samples) ==
    [Camera_new EXCEPT !.image_width = width, !.aspect_ratio = aspect,
                       !.pixel_samples = samples, !.camera_origin = V(0, 0, 0),
                       !.camera_target = V(0, 0, -1), !.focus_distance = R(4)]

\* the scene main builds and hands to render
RenderScene(s) ==
    IF s = 0 THEN <<>>
    ELSE <<Sphere_from(V(0, 0, -2), R(1), Lambertian_from(Grey)),
           Sphere_from(V(0, 0, -5), R(2), Metal_from(Grey, R(0)))>>

\* a faulty variant: the closure moves the camera to the pixel it samples
Camera_moved_by_get_ray(c) == [c EXCEPT !.center = c.pixel_origin]

\* get_ray and the closure of map take the camera by shared reference
\* (&self): the camera after a worker has traced its scanline
Camera_after_get_ray(c) == c

InitRender ==
    /\ FnIdle
    /\ TraceQuiet
    /\ renderer \in Renderers
    /\ image_width \in 1..MaxWidth
    /\ aspect_ratio \in AspectRatios
    /\ image_height = 0
    /\ pixel_samples \in SampleCounts
    /\ shade \in Shades
    /\ rpc = "new"
    /\ file = <<>>
    /\ file_pixels = <<>>
    /\ wpc = <<>>
    /\ scanline_data = <<>>
    /\ scanlines_done = 0
    /\ observed = <<>>
    /\ finished = <<>>
    /\ stderr = <<>>
    /\ pixels = <<>>
    /\ written = 0
    /\ world = RenderScene(shade)
    /\ camera = RenderCamera(image_width, aspect_ratio, pixel_samples)

Render_started(height) ==
    /\ image_height' = height
    /\ file' = ppm_header(image_width, height)
    /\ wpc' = [j \in 0..(height - 1) |-> "pending"]
    /\ scanline_data' = [j \in 0..(height - 1) |-> <<>>]
    /\ observed' = [j \in 0..(height - 1) |-> 0]
    /\ rpc' = IF renderer = "parallel" THEN "tracing" ELSE "scanning"
    /\ UNCHANGED stderr

\* the panic of File::create(..).expect or of writeln!(..).expect: the camera
\* is initialized, nothing is in the file, no scanline is handed out
Render_panicked(height, message) ==
    /\ image_height' = height
    /\ rpc' = expect(FALSE, rpc)
    /\ stderr' = Append(stderr, message)
    /\ UNCHANGED <<file, wpc, scanline_data, observed>>

\* initialize(), File::create, the header
Render_begin ==
    /\ rpc = "new"
    /\ \E outcome \in BeginOutcomes :
          IF outcome = "ok"
          THEN Render_started(Camera_image_height(image_width, aspect_ratio))
          ELSE Render_panicked(Camera_image_height(image_width, aspect_ratio),
                               IF outcome = "create failed" THEN CreatePanic
                               ELSE HeaderPanic)
    /\ camera' = Camera_initialize(camera)
    /\ UNCHANGED <<renderer, image_width, aspect_ratio, pixel_samples, shade>>
    /\ UNCHANGED <<file_pixels, scanlines_done, finished, pixels, written>>
    /\ UNCHANGED <<fnVars, traceVars>>

\* a worker runs the pixel loop of scanline j
Worker_trace ==
    /\ rpc = "tracing"
    /\ \E j \in DOMAIN wpc :
          /\ wpc[j] = "pending"
          /\ scanline_data' =
                [scanline_data EXCEPT
                    ![j] = trace_scanline(image_width, pixel_samples, shade, j)]
          /\ wpc' = [wpc EXCEPT ![j] = "traced"]
    /\ camera' = Camera_after_get_ray(camera)
    /\ UNCHANGED <<cameraVars, rpc, file, file_pixels, scanlines_done, observed,
                   finished, stderr, pixels, written>>
    /\ UNCHANGED <<fnVars, traceVars>>

\* scanlines_done.fetch_add(1, SeqCst) + 1
Worker_count ==
    /\ rpc = "tracing"
    /\ \E j \in DOMAIN wpc :
          /\ wpc[j] = "traced"
          /\ observed' = [observed EXCEPT ![j] = fetch_add(scanlines_done, 1).previous + 1]
          /\ wpc' = [wpc EXCEPT ![j] = "counted"]
    /\ scanlines_done' = fetch_add(scanlines_done, 1).value
    /\ UNCHANGED <<cameraVars, rpc, file, file_pixels, scanline_data, finished,
                   stderr, pixels, written, camera>>
    /\ UNCHANGED <<fnVars, traceVars>>

\* eprintln! of the progress, and the closure returns its scanline
Worker_return ==
    /\ rpc = "tracing"
    /\ \E j \in DOMAIN wpc :
          /\ wpc[j] = "counted"
          /\ stderr' = Append(stderr, progress_line(observed[j], image_height))
          /\ finished' = Append(finished, j)
          /\ wpc' = [wpc EXCEPT ![j] = "done"]
    /\ UNCHANGED <<cameraVars, rpc, file, file_pixels, scanline_data,
                   scanlines_done, observed, pixels, written, camera>>
    /\ UNCHANGED <<fnVars, traceVars>>

\* collect() returns the scanlines
Render_collect ==
    /\ rpc = "tracing"
    /\ par_all_returned(wpc)
    /\ pixels' = par_collect(finished, scanline_data, image_height)
    /\ rpc' = "writing"
    /\ UNCHANGED <<cameraVars, file, file_pixels, workerVars, stderr, written, camera>>
    /\ UNCHANGED <<fnVars, traceVars>>

\* write_all (and, in camera.rs, flush) of one pixel: the line is in the
\* file, or the operation returned an error and render panics
Render_written(pixel, ok) ==
    /\ file' = IF ok THEN Append(file, pixel.text) ELSE file
    /\ file_pixels' = IF ok THEN Append(file_pixels, <<pixel.j, pixel.i>>) ELSE file_pixels
    /\ written' = IF ok THEN written + 1 ELSE written
    /\ rpc' = expect(ok, rpc)
    /\ stderr' = IF ok THEN stderr ELSE Append(stderr, WritePanic)

\* file.write_all(pixel.as_bytes()) for the next pixel collected
Render_write ==
    /\ rpc = "writing"
    /\ written < Len(write_order(pixels))
    /\ \E ok \in BOOLEAN : Render_written(write_order(pixels)[written + 1], ok)
    /\ UNCHANGED <<cameraVars, workerVars, pixels, camera>>
    /\ UNCHANGED <<fnVars, traceVars>>

\* camera.rs: the next pixel is traced, encoded and written
Render_scan ==
    /\ rpc = "scanning"
    /\ written < image_width * image_height
    /\ \E ok \in BOOLEAN :
          Render_written(
              [j |-> written \div image_width,
               i |-> written % image_width,
               text |-> write_color0(PixelSum(shade, written % image_width,
                                              written \div image_width),
                                     pixel_samples)], ok)
    /\ UNCHANGED <<cameraVars, workerVars, pixels, camera>>
    /\ UNCHANGED <<fnVars, traceVars>>

\* the loops are over: eprintln!("\nDone.")
Render_finish ==
    /\ \/ rpc = "writing" /\ written = Len(write_order(pixels))
       \/ rpc = "scanning" /\ written = image_width * image_height
    /\ rpc' = "done"
    /\ stderr' = Append(stderr, "Done.")
    /\ UNCHANGED <<cameraVars, file, file_pixels, workerVars, pixels, written, camera>>
    /\ UNCHANGED <<fnVars, traceVars>>

Next ==
    \/ Render_begin
    \/ Worker_trace
    \/ Worker_count
    \/ Worker_return
    \/ Render_collect
    \/ Render_write
    \/ Render_scan
    \/ Render_finish

\* the render thread and every worker of the pool keep running
Fairness == WF_vars(Next)

Spec == InitRender /\ [][Next]_vars /\ Fairness

(***************************************************************************)
(* Properties of the operations                                             *)
(***************************************************************************)
\* the parameters at which roots are looked for
Params == { Q(n, d) : n \in -40..40, d \in {1, 2, 5, 25} }

\* t is a root of the ray's quadratic: the ray is on the sphere's surface at t
OnSphere(s, r, t) ==
    Vec3_magnitude(Vec3_sub(Ray_at(r, t), s.center)) = RMul(s.radius, s.radius)

Admissible(s, r, iv, t) == OnSphere(s, r, t) /\ RLt(iv.min, t) /\ RLt(t, iv.max)

\* what C5 says of one result of hit
SmallestAdmissibleRoot(res) ==
    /\ res.hit <=> \E t \in Params : Admissible(arg.sphere, arg.ray, arg.interval, t)
    /\ res.hit =>
          /\ Admissible(arg.sphere, arg.ray, arg.interval, res.record.parameter)
          /\ \A t \in Params :
                Admissible(arg.sphere, arg.ray, arg.interval, t)
                    => RLe(res.record.parameter, t)

\* C5 (as claimed, for both versions of Sphere::hit): hit is true exactly when
\* the quadratic has a root strictly inside the interval, and the parameter
\* stored is then the smallest root strictly inside it.
C5_SmallestRoot ==
    fn \in {"Sphere_hit", "Sphere0_hit"} => SmallestAdmissibleRoot(out)

\* the same for Sphere::hit of drawable/sphere.rs alone, which does satisfy it
C5_SmallestRoot_Drawable == fn = "Sphere_hit" => SmallestAdmissibleRoot(out)

C5_LargerRootTaken ==
    /\ fn = "Sphere_hit"
    /\ out.hit
    /\ \E t \in Params : OnSphere(arg.sphere, arg.ray, t) /\ RLt(t, out.record.parameter)

\* the outward normal of the sphere at the point of the record
OutwardAt(s, rec) == Vec3_div(Vec3_sub(rec.point, s.center), s.radius)

FacesRay(s, r, rec) ==
    /\ RLe(dot(r.direction, rec.normal), R(0))
    /\ rec.ray_faces_outside <=> RLt(dot(r.direction, OutwardAt(s, rec)), R(0))

Alone(k) == Sphere_hit(arg.world[k], arg.ray, arg.interval, HitRecord_new)

\* C4: Traceables::hit returns true iff some member is hit within the
\* interval, and the record is that of a member whose parameter is the
\* minimum over the members hit, whatever the insertion order.
C4_ClosestHit ==
    fn = "Traceables_hit" =>
        /\ out.hit <=> \E k \in 1..Len(arg.world) : Alone(k).hit
        /\ out.hit =>
              \E k \in 1..Len(arg.world) :
                  /\ Alone(k).hit
                  /\ out.record = Alone(k).record
                  /\ \A j \in 1..Len(arg.world) :
                        Alone(j).hit
                            => RLe(Alone(k).record.parameter, Alone(j).record.parameter)
        /\ ~out.hit => out.record = arg.record

\* two members are hit and the nearer one was inserted last
C4_Witness ==
    /\ fn = "Traceables_hit"
    /\ Len(arg.world) = 2
    /\ out.hit
    /\ Alone(1).hit
    /\ Alone(2).hit
    /\ RLt(Alone(2).record.parameter, Alone(1).record.parameter)
    /\ out.record = Alone(2).record

\* member k is hit, no member before it is hit as near, no member after it
\* is hit nearer
FirstNearest(k) ==
    /\ Alone(k).hit
    /\ \A j \in 1..(k - 1) :
          Alone(j).hit => RLt(Alone(k).record.parameter, Alone(j).record.parameter)
    /\ \A j \in (k + 1)..Len(arg.world) :
          Alone(j).hit => RLe(Alone(k).record.parameter, Alone(j).record.parameter)

\* C18: in Traceables::hit a later member replaces the closest hit only when
\* its parameter is strictly smaller: the record returned is that of the
\* first inserted of the members hit at the smallest parameter.
C18_FirstOfEqualHits ==
    (fn = "Traceables_hit" /\ out.hit) =>
        \E k \in 1..Len(arg.world) : FirstNearest(k) /\ out.record = Alone(k).record

\* two members are hit at the same parameter with different records, and
\* the record returned is that of the first
C18_Witness ==
    /\ fn = "Traceables_hit"
    /\ Len(arg.world) = 2
    /\ Alone(1).hit
    /\ Alone(2).hit
    /\ Alone(1).record.parameter = Alone(2).record.parameter
    /\ Alone(1).record # Alone(2).record
    /\ out.hit
    /\ out.record = Alone(1).record

\* the centre of the sphere at the time of the ray
CentreAt(s, r) == Vec3_add(s.center, Vec3_scale(r.time, s.motion_blur_lerp_factor))

\* the normal of the record is that of the sphere centred at c: the point is
\* on that sphere and the normal is (point - c) / radius, turned against the ray
NormalAbout(s, r, c, rec) ==
    /\ Vec3_magnitude(Vec3_sub(rec.point, c)) = RMul(s.radius, s.radius)
    /\ rec.normal = IF rec.ray_faces_outside
                     THEN Vec3_div(Vec3_sub(rec.point, c), s.radius)
                     ELSE Vec3_neg(Vec3_div(Vec3_sub(rec.point, c), s.radius))
    /\ rec.ray_faces_outside
          <=> RLt(dot(r.direction, Vec3_div(Vec3_sub(rec.point, c), s.radius)), R(0))

\* C19 (as claimed): for a moving sphere hit by a ray with time t the
\* intersection and the outward normal of the record use the same centre
\* C(t) = center_start + t * (center_end - center_start).
C19_NormalAboutCentreAtTime ==
    (fn = "Sphere_hit_moving" /\ out.hit)
        => NormalAbout(arg.sphere, arg.ray, CentreAt(arg.sphere, arg.ray), out.record)

\* what the code does: the point is on the sphere centred at C(t), the
\* normal is taken about center_start
C19_NormalAboutStart ==
    (fn = "Sphere_hit_moving" /\ out.hit) =>
        /\ Vec3_magnitude(Vec3_sub(out.record.point, CentreAt(arg.sphere, arg.ray)))
              = RMul(arg.sphere.radius, arg.sphere.radius)
        /\ out.record.normal \in
              { Vec3_div(Vec3_sub(out.record.point, arg.sphere.center), arg.sphere.radius),
                Vec3_neg(Vec3_div(Vec3_sub(out.record.point, arg.sphere.center),
                                  arg.sphere.radius)) }

\* the sphere has moved to (1, 0, -2) and is hit at its nearest point
\* (1, 0, -1); the normal stored is (1, 0, 1), not (0, 0, 1)
C19_SkewedNormal ==
    /\ fn = "Sphere_hit_moving"
    /\ arg.ray = Ray_from(V(1, 0, 0), V(0, 0, -1), Q(1, 2))
    /\ CentreAt(arg.sphere, arg.ray) = V(1, 0, -2)
    /\ out.hit
    /\ out.record.parameter = R(1)
    /\ out.record.point = V(1, 0, -1)
    /\ out.record.normal = V(1, 0, 1)

\* C20 (as claimed, for both cameras): after initialize the camera centre,
\* the origin of the primary rays and of the viewport, is the configured
\* look_from point camera_origin.
C20_CentreIsLookFrom ==
    /\ fn = "Camera_initialize" =>
          (out.center = arg.camera.camera_origin
              /\ Camera_ray_origin(out) = arg.camera.camera_origin)
    /\ fn = "Camera1_initialize" =>
          (out.center = arg.camera.camera_origin
              /\ Camera1_ray_origin(out) = arg.camera.camera_origin)

\* the same for the camera of perspective_camera/camera.rs alone, which
\* does satisfy it
C20_CentreIsLookFrom_Perspective ==
    fn = "Camera_initialize" =>
        (out.center = arg.camera.camera_origin
            /\ Camera_ray_origin(out) = arg.camera.camera_origin)

\* what camera/camera.rs does: the centre is the origin of the scene
C20_CentreIsZero == fn = "Camera1_initialize" => out.center = Vec3_new

RECURSIVE SumOfFirst(_, _)

\* the basis the camera should hold after initialize
UpNotParallel(c0) ==
    Vec3_cross(c0.up_vector, Vec3_sub(c0.camera_origin, c0.camera_target)) # Vec3_new

IsUnit(a) == dot(a, a) = R(1)

Orthonormal(c) ==
    /\ IsUnit(c.w) /\ IsUnit(c.u) /\ IsUnit(c.v)
    /\ dot(c.u, c.v) = R(0) /\ dot(c.v, c.w) = R(0) /\ dot(c.w, c.u) = R(0)

BasisOf(c0, c) ==
    /\ c.w = Vec3_normalize(Vec3_sub(c0.camera_origin, c0.camera_target))
    /\ c.u = Vec3_normalize(Vec3_cross(c0.up_vector, c.w))
    /\ c.v = Vec3_cross(c.w, c.u)
    /\ Orthonormal(c)

\* C21 (as claimed, for both cameras): with up_vector not parallel to the
\* view direction, initialize leaves w = normalize(look_from - look_at),
\* u = normalize(up x w), v = w x u, which are of unit length and mutually
\* orthogonal, and u is the same whatever u the camera held before the call.
C21_Basis ==
    /\ (fn = "Camera_initialize" /\ UpNotParallel(arg.camera)) =>
          /\ BasisOf(arg.camera, out)
          /\ \A pu \in PriorBasis :
                Camera_initialize([arg.camera EXCEPT !.u = pu]).u = out.u
    /\ (fn = "Camera1_initialize" /\ UpNotParallel(arg.camera)) =>
          /\ BasisOf(arg.camera, out)
          /\ \A pu \in PriorBasis :
                Camera1_initialize([arg.camera EXCEPT !.u = pu]).u = out.u

\* the same for the camera of perspective_camera/camera.rs alone
C21_Basis_Perspective ==
    (fn = "Camera_initialize" /\ UpNotParallel(arg.camera)) =>
        /\ BasisOf(arg.camera, out)
        /\ \A pu \in PriorBasis :
              Camera_initialize([arg.camera EXCEPT !.u = pu]).u = out.u

\* what camera/camera.rs leaves: v = up x w, and u = w x (u before the call)
C21_BasisFromPriorU ==
    fn = "Camera1_initialize" =>
        /\ out.v = Vec3_cross(arg.camera.up_vector, out.w)
        /\ out.u = Vec3_cross(out.w, arg.camera.u)

\* a camera built by Camera::new, whose u is the zero vector, and initialized
C21_ZeroU ==
    /\ fn = "Camera1_initialize" /\ UpNotParallel(arg.camera)
    /\ arg.camera.u = Vec3_new /\ out.u = Vec3_new

\* the centre of pixel (i, j) of a viewport whose top-left corner is origin
PixelCentre(origin, delta_u, delta_v, i, j) ==
    Vec3_add(Vec3_add(origin, Vec3_scale(RAdd(R(i), Q(1, 2)), delta_u)),
             Vec3_scale(RAdd(R(j), Q(1, 2)), delta_v))

HalfStep(origin, delta_u, delta_v) ==
    Vec3_add(Vec3_add(origin, Vec3_scale(Q(1, 2), delta_u)), Vec3_scale(Q(1, 2), delta_v))

CameraPixelOrigin(viewport_origin) ==
    /\ out.pixel_origin = HalfStep(viewport_origin, out.pixel_delta_u, out.pixel_delta_v)
    /\ \A i \in 0..(out.image_width - 1), j \in 0..(out.image_height - 1) :
          Camera_pixel_center(out, i, j)
              = PixelCentre(viewport_origin, out.pixel_delta_u, out.pixel_delta_v, i, j)

MainPixelOrigin ==
    /\ out.pixel_origin
          = HalfStep(out.viewport_origin, out.pixel_deltas[1], out.pixel_deltas[2])
    /\ \A i \in 0..(out.image_dimensions[1] - 1), j \in 0..(out.image_dimensions[2] - 1) :
          main_pixel_center(out, i, j)
              = PixelCentre(out.viewport_origin, out.pixel_deltas[1], out.pixel_deltas[2],
                            i, j)

\* C22 (as claimed, for the entry point and the two cameras named): the
\* pixel origin is viewport_origin + 0.5*pixel_delta_u + 0.5*pixel_delta_v,
\* the centre of the top-left pixel, so that pixel_origin + i*pixel_delta_u
\* + j*pixel_delta_v is the centre of pixel (i, j).
C22_PixelOrigin ==
    /\ fn = "Camera_initialize" => CameraPixelOrigin(Camera_viewport_origin(out))
    /\ fn = "Camera0_initialize" => CameraPixelOrigin(Camera0_viewport_origin(out))
    /\ fn = "main" => MainPixelOrigin

\* the same for the two camera objects alone
C22_PixelOrigin_Cameras ==
    /\ fn = "Camera_initialize" => CameraPixelOrigin(Camera_viewport_origin(out))
    /\ fn = "Camera0_initialize" => CameraPixelOrigin(Camera0_viewport_origin(out))

\* what main.rs computes: a whole step along pixel_delta_v
C22_WholeStepDown ==
    fn = "main" =>
        out.pixel_origin
            = Vec3_add(HalfStep(out.viewport_origin, out.pixel_deltas[1], out.pixel_deltas[2]),
                       Vec3_scale(Q(1, 2), out.pixel_deltas[2]))

\* the sum of the first n colours of a sequence
SumOfFirst(colors, n) ==
    IF n = 0 THEN Vec3_new ELSE Vec3_add(SumOfFirst(colors, n - 1), colors[n])

\* one channel: the mean, its square root, the clamp to [0, 0.999], and the
\* integer part of 256 times the result
Mean(sum, n) == RDiv(sum, R(n))

Clamped(x) ==
    IF RLt(x, R(0)) THEN R(0) ELSE IF RLt(Q(999, 1000), x) THEN Q(999, 1000) ELSE x

Floor256(x) == (256 * x[1]) \div x[2]

EncodedChannel(sum, n) == Floor256(Clamped(RSqrt(Mean(sum, n))))

Encoded(pixel_color, n) == [k \in 1..3 |-> EncodedChannel(pixel_color[k], n)]

\* a sum of colours with finite channels, none negative
FiniteSum(pixel_color) ==
    \A k \in 1..3 : pixel_color[k][2] # 0 /\ pixel_color[k][1] >= 0

\* C23 (as claimed, for both versions of write_color): a pixel accumulates
\* exactly pixel_samples outputs of the estimator, and write_color divides
\* each channel of the sum by the number of samples, takes the square root,
\* clamps to [0, 0.999] and encodes floor(256 * value), in this order.
C23_SamplesThenEncoding ==
    /\ fn = "render_pixel" =>
          /\ out.taken = arg.samples
          /\ out.pixel_color = SumOfFirst(arg.outputs, arg.samples)
          /\ out.channels = Encoded(out.pixel_color, arg.samples)
    /\ (fn = "write_color" /\ FiniteSum(arg.color)) =>
          out.channels = Encoded(arg.color, arg.samples)
    /\ (fn = "write_color0" /\ FiniteSum(arg.color)) =>
          out.channels = Encoded(arg.color, arg.samples)

\* the same for Camera::render and the write_color of vectors/color.rs alone
C23_SamplesThenEncoding_Gamma ==
    /\ fn = "render_pixel" =>
          /\ out.taken = arg.samples
          /\ out.pixel_color = SumOfFirst(arg.outputs, arg.samples)
          /\ out.channels = Encoded(out.pixel_color, arg.samples)
    /\ (fn = "write_color" /\ FiniteSum(arg.color)) =>
          out.channels = Encoded(arg.color, arg.samples)

\* what the write_color of color.rs encodes: the mean itself
C23_NoGamma ==
    (fn = "write_color0" /\ FiniteSum(arg.color)) =>
        out.channels = [k \in 1..3 |-> Floor256(Clamped(Mean(arg.color[k], arg.samples)))]

\* four samples of a pixel, of which the sum is not a multiple of a sample
C23_FourSamples ==
    /\ fn = "render_pixel" /\ arg.samples = 4
    /\ out.taken = 4
    /\ out.channels \notin { <<0, 0, 0>>, <<255, 255, 255>> }

\* |c| < 1e-8 for a channel c
SmallChannel(c) ==
    /\ c[2] # 0
    /\ c[1] = 0 \/ (Abs(c[1]) < 22 /\ Abs(c[1]) * 100000000 < c[2])

NearZero(v) == \A k \in 1..3 : SmallChannel(v[k])

DiffuseDirection(normal, sum) == IF NearZero(sum) THEN normal ELSE sum

\* C24: Lambertian::scatter returns true for every input, the attenuation is
\* the albedo, the scattered ray starts at the hit point and its direction
\* is normal + random unit vector, or exactly the normal when every
\* component of that sum is below 1e-8 in absolute value.
C24_DiffuseScatter ==
    /\ fn = "Lambertian_scatter" =>
          /\ out.scatters = TRUE
          /\ out.attenuation = arg.sphere.material.albedo
          /\ out.scattered_ray.origin = out.record.point
          /\ out.scattered_ray.direction
                = DiffuseDirection(out.record.normal,
                      Vec3_add(out.record.normal, Vec3_normalize(arg.vector)))
    /\ fn = "Lambertian_direction" =>
          out.direction = DiffuseDirection(arg.record.normal, arg.vector)

\* the random unit vector is the opposite of the normal: the ray leaves
\* along the normal
C24_Witness ==
    /\ fn = "Lambertian_scatter"
    /\ Vec3_add(out.record.normal, Vec3_normalize(arg.vector)) = Vec3_new
    /\ out.scattered_ray.direction = out.record.normal
    /\ out.scattered_ray.direction # Vec3_new
    /\ out.scatters

\* a sum that is small and not zero is replaced too; one with a component
\* of exactly 1e-8 is kept
C24_Threshold ==
    \/ /\ fn = "Lambertian_direction"
       /\ arg.vector = <<Q(1, 1000000000), R(0), Q(-1, 1000000000)>>
       /\ out.direction = arg.record.normal
    \/ /\ fn = "Lambertian_direction"
       /\ arg.vector = <<Q(1, 100000000), R(0), R(0)>>
       /\ out.direction = arg.vector

\* the quantities of a refractive hit, from the ray, the record and the index
Ratio(rec) ==
    IF rec.ray_faces_outside THEN RDiv(R(1), rec.material.index_of_refraction)
    ELSE rec.material.index_of_refraction

CosTheta(r, rec) ==
    IF RLt(dot(Vec3_neg(Vec3_normalize(r.direction)), rec.normal), R(1))
    THEN dot(Vec3_neg(Vec3_normalize(r.direction)), rec.normal) ELSE R(1)

SinTheta(r, rec) == RSqrt(RSub(R(1), RMul(CosTheta(r, rec), CosTheta(r, rec))))

Schlick_r0(ratio) ==
    RMul(RDiv(RSub(R(1), ratio), RAdd(R(1), ratio)), RDiv(RSub(R(1), ratio), RAdd(R(1), ratio)))

Fifth(a) == RMul(a, RMul(RMul(a, a), RMul(a, a)))

Schlick(cos_theta, ratio) ==
    RAdd(Schlick_r0(ratio), RMul(RSub(R(1), Schlick_r0(ratio)), Fifth(RSub(R(1), cos_theta))))

TotalReflection(r, rec) == RLt(R(1), RMul(Ratio(rec), SinTheta(r, rec)))

MustReflect(r, rec, draw) ==
    TotalReflection(r, rec) \/ RLt(draw, Schlick(CosTheta(r, rec), Ratio(rec)))

\* C25: Dielectric::scatter returns true for every input with white
\* attenuation, the refraction ratio is 1/ior on a front-face hit and ior
\* otherwise, and the ray is reflected exactly when ratio * sin_theta > 1 or
\* the uniform draw is less than the Schlick reflectance, refracted otherwise.
C25_RefractiveScatter ==
    fn = "Dielectric_scatter" =>
        /\ out.scatters = TRUE
        /\ out.attenuation = V(1, 1, 1)
        /\ out.refraction_ratio = Ratio(arg.record)
        /\ out.reflected <=> MustReflect(arg.ray, arg.record, arg.x)
        /\ out.scattered_ray.origin = arg.record.point
        /\ out.scattered_ray.direction
              = IF MustReflect(arg.ray, arg.record, arg.x)
                THEN Vec3_reflect(Vec3_normalize(arg.ray.direction), arg.record.normal)
                ELSE Vec3_refract(Vec3_normalize(arg.ray.direction), arg.record.normal,
                                  Ratio(arg.record))

\* a ray that enters water at an angle and is bent toward the normal
C25_Witness ==
    /\ fn = "Dielectric_scatter"
    /\ arg.record.ray_faces_outside /\ arg.record.material.index_of_refraction = Q(4, 3)
    /\ arg.ray.direction = V(4, 0, -3)
    /\ out.refraction_ratio = Q(3, 4)
    /\ ~out.reflected
    /\ out.scattered_ray.direction = <<Q(3, 5), R(0), Q(-4, 5)>>
    /\ out.scatters

\* a ray that leaves water too flat to get out: reflected whatever the draw
C25_TotalReflection ==
    /\ fn = "Dielectric_scatter"
    /\ ~arg.record.ray_faces_outside /\ out.refraction_ratio = Q(4, 3)
    /\ arg.ray.direction = V(4, 0, -3) /\ arg.x = Q(99, 100)
    /\ out.reflected
    /\ out.scattered_ray.direction = <<Q(4, 5), R(0), Q(3, 5)>>

\* a ray that meets water head-on: reflected by the draw 0, refracted by the
\* draw equal to the reflectance 1/49
C25_ReflectedByDraw ==
    /\ fn = "Dielectric_scatter"
    /\ arg.record.ray_faces_outside /\ arg.record.material.index_of_refraction = Q(4, 3)
    /\ arg.ray.direction = V(0, 0, -1)
    /\ \/ arg.x = R(0) /\ out.reflected /\ out.scattered_ray.direction = V(0, 0, 1)
       \/ arg.x = Q(1, 49) /\ ~out.reflected /\ out.scattered_ray.direction = V(0, 0, -1)

\* the same sphere with the radius of the opposite sign
Hollow(s) == [s EXCEPT !.radius = RNeg(s.radius)]

\* the ray does not graze the sphere at the hit recorded
NotTangent(r, rec) == dot(r.direction, rec.normal) # R(0)

SameHitOppositeFace(res, hollow, r) ==
    /\ hollow.hit = res.hit
    /\ res.hit =>
          /\ hollow.record.parameter = res.record.parameter
          /\ hollow.record.point = res.record.point
          /\ hollow.record.normal = res.record.normal
          /\ NotTangent(r, res.record) =>
                hollow.record.ray_faces_outside = ~res.record.ray_faces_outside
    /\ ~res.hit => hollow.record = res.record

\* at a hit where the ray is not tangent the normal stored is the same and
\* the flag the opposite; where it is tangent both flags are false and the
\* normals stored are opposite
SameHitOppositeFaceOrNormal(res, hollow, r) ==
    /\ hollow.hit = res.hit
    /\ res.hit =>
          /\ hollow.record.parameter = res.record.parameter
          /\ hollow.record.point = res.record.point
          /\ NotTangent(r, res.record) =>
                /\ hollow.record.normal = res.record.normal
                /\ hollow.record.ray_faces_outside = ~res.record.ray_faces_outside
          /\ ~NotTangent(r, res.record) =>
                /\ hollow.record.normal = Vec3_neg(res.record.normal)
                /\ ~hollow.record.ray_faces_outside /\ ~res.record.ray_faces_outside
    /\ ~res.hit => hollow.record = res.record

\* C26 (amended): a sphere of radius -r is hit at the same parameters as
\* the sphere of radius r with the same centre; where the ray is not
\* tangent the normal stored is the same vector and the front-face flag the
\* opposite; where it is tangent the flag is false for both and the normals
\* stored are opposite.
C26_NegativeRadiusNotTangent ==
    fn = "Sphere_hit" =>
        SameHitOppositeFaceOrNormal(out,
            Sphere_hit(Hollow(arg.sphere), arg.ray, arg.interval, arg.record), arg.ray)

\* C26 (as claimed): a sphere of radius -r is hit at the same parameters as
\* the sphere of radius r with the same centre, the normal stored is the
\* same vector, and the front-face flag is the opposite unless the ray is
\* tangent.
C26_NegativeRadius ==
    fn = "Sphere_hit" =>
        SameHitOppositeFace(out,
            Sphere_hit(Hollow(arg.sphere), arg.ray, arg.interval, arg.record), arg.ray)

\* a hit from outside: front face for the radius 1, back face for -1
C26_Witness ==
    /\ fn = "Sphere_hit" /\ out.hit
    /\ arg.sphere.radius = R(1)
    /\ NotTangent(arg.ray, out.record)
    /\ out.record.ray_faces_outside
    /\ ~Sphere_hit(Hollow(arg.sphere), arg.ray, arg.interval, arg.record)
            .record.ray_faces_outside
    /\ Sphere_hit(Hollow(arg.sphere), arg.ray, arg.interval, arg.record).record.normal
          = out.record.normal

\* a grazing ray: both spheres report a hit from inside
C26_Tangent ==
    /\ fn = "Sphere_hit" /\ out.hit
    /\ ~NotTangent(arg.ray, out.record)
    /\ ~out.record.ray_faces_outside
    /\ Sphere_hit(Hollow(arg.sphere), arg.ray, arg.interval, arg.record).record.normal
          = Vec3_neg(out.record.normal)
    /\ ~Sphere_hit(Hollow(arg.sphere), arg.ray, arg.interval, arg.record)
            .record.ray_faces_outside

\* C28: when hit returns false the record of the caller is as it was before
\* the call, for Sphere::hit and for Traceables::hit.
C28_RecordKeptOnMiss ==
    (fn \in {"Sphere_hit", "Traceables_hit"} /\ ~out.hit) => out.record = arg.record

\* a record an earlier hit has filled, handed to a scene that the ray meets
\* only outside the interval
C28_Witness ==
    /\ fn = "Traceables_hit" /\ ~out.hit
    /\ Len(arg.world) > 0
    /\ arg.record = UsedRecord /\ out.record = UsedRecord
    /\ \E k \in 1..Len(arg.world) :
          ~RLt(Sphere_quadratic(arg.world[k], arg.ray).discriminant, R(0))

\* the same for a single sphere
C28_SphereMiss ==
    /\ fn = "Sphere_hit" /\ ~out.hit
    /\ arg.record = UsedRecord /\ out.record = UsedRecord
    /\ ~RLt(Sphere_quadratic(arg.sphere, arg.ray).discriminant, R(0))

\* the positive parameters at which the ray meets a member of the scene
PositiveRootsOf(sp, r) ==
    IF RLt(Sphere_quadratic(sp, r).discriminant, R(0)) THEN {}
    ELSE { t \in { Sphere_roots(Sphere_quadratic(sp, r))[1],
                   Sphere_roots(Sphere_quadratic(sp, r))[2] } : RLt(R(0), t) }

PositiveRoots(objects, r) ==
    UNION { PositiveRootsOf(objects[k], r) : k \in 1..Len(objects) }

\* C30: main.rs's estimator reports a ray that meets a sphere at a positive
\* parameter as a hit and returns the colour of the normal, 0.5 * (normal +
\* (1, 1, 1)): Sphere::hit takes the caller's bounds as minimum 0 and
\* maximum infinity.
C30_PositiveRootIsHit ==
    (fn = "main_get_ray_color" /\ PositiveRoots(arg.world, arg.ray) # {}) =>
        /\ out.hit
        /\ out.record.parameter \in PositiveRoots(arg.world, arg.ray)
        /\ out.color = Vec3_scale(Q(1, 2), Vec3_add(out.record.normal, V(1, 1, 1)))

\* what the estimator does: Sphere::hit takes the first bound, 0, as the
\* maximum and the second, infinity, as the minimum, no root lies between
\* them and every ray gets the colour of the sky
C30_NeverHit ==
    fn = "main_get_ray_color" => (~out.hit /\ out.color = sky(arg.ray))

\* the ray down -z from the origin meets the first sphere of main's scene at
\* 1/2 and 3/2 and is given the colour of the sky
C30_SphereInFrontMissed ==
    /\ fn = "main_get_ray_color"
    /\ arg.world = main_world
    /\ arg.ray = Ray_from(V(0, 0, 0), V(0, 0, -1), R(0))
    /\ PositiveRoots(arg.world, arg.ray) = { Q(1, 2), Q(3, 2) }
    /\ ~out.hit
    /\ out.color = sky(arg.ray)

\* C7 (as claimed): Metal::scatter reports a scatter only if the perturbed
\* reflection leaves the surface, dot(scattered direction, normal) > 0.
C7_ScatterOnlyOutward ==
    (fn = "Metal_scatter" /\ out.scatters)
        => RLt(R(0), dot(out.scattered_ray.direction, out.record.normal))

\* C8 (as claimed): the fuzz Metal::from stores lies in [0,1].
C8_FuzzInUnitInterval ==
    fn = "Metal_from" => RLe(R(0), out.fuzz) /\ RLe(out.fuzz, R(1))

\* C10: every channel write_color emits is an integer in [0,255].
C10_ChannelRange ==
    fn \in {"write_color", "write_color0"} =>
        \A k \in 1..3 : out.channels[k] \in 0..255

\* a colour with a channel above 1, a negative one and one inside the range
C10_Witness ==
    /\ fn = "write_color"
    /\ arg.color = <<R(100), R(-1), Q(1, 4)>>
    /\ arg.samples = 1
    /\ out.channels = <<255, 0, 128>>
    /\ out.text = "255 0 128"

\* every hit finds a draw that keeps the arithmetic of the next ray exact
Trace_CanScatter ==
    pc = "scatter" =>
        \E v \in TraceDraws :
            /\ Vec3_accepted(v)
            /\ HasLength(v)
            /\ RayOk(world, estimator_scatter(estimator, ray, record, v).scattered_ray)

\* C3, the bound: no more scatter events than the depth of the call, and
\* no more frames than that
C3_Bounded ==
    /\ scatters <= max_depth
    /\ Len(stack) <= scatters
    /\ pc \in {"entry", "scatter"} => depth = max_depth - Len(stack)
    /\ hit_tests <= max_depth

\* C3, depth 0: a frame entered with depth 0 returns black and leaves the
\* scene untested
C3_DepthZero ==
    (pc = "entry" /\ depth = 0)
        => (pc' = "return" /\ color' = Vec3_new /\ hit_tests' = hit_tests)

\* C3: get_ray_color terminates for every scene and ray; called with depth 0
\* it returns black without testing the scene; called with depth k it makes
\* at most k scatter events (recursive calls) before it returns.
C3_Terminates ==
    /\ [](pc = "entry" => <>(pc = "done"))
    /\ []C3_Bounded
    /\ [][C3_DepthZero]_vars
    /\ []((pc = "done" /\ max_depth = 0) => (color = Vec3_new /\ hit_tests = 0))

\* a call of depth MaxDepth has returned after MaxDepth scatter events
C3_Witness ==
    /\ pc = "done"
    /\ max_depth = MaxDepth
    /\ scatters = MaxDepth
    /\ hit_tests = MaxDepth
    /\ color = Vec3_new

\* the frame is about to find no hit and to normalize the direction of its ray
AboutToLookAtSky ==
    /\ pc = "entry" /\ ~get_ray_color_exhausted(depth)
    /\ ~Traceables_hit(world, ray, TraceInterval, HitRecord_new).hit

\* the frame is about to call Metal::scatter, which normalizes the direction
\* of the incoming ray
AboutToReflect ==
    pc = "scatter" /\ estimator = "materials" /\ record.material.kind = "metal"

\* the last draw was accepted by random_unit_sphere_vector and normalized
DrawNormalized == scatters > 0 /\ Vec3_accepted(vector)

\* C27 (as claimed): Vec3::normalize is never invoked on a vector of length
\* zero: not on the sample random_unit_sphere_vector accepts, not on the
\* direction of a ray the estimator or the reflective material normalizes.
C27_NormalizeNonZero ==
    /\ DrawNormalized => vector # Vec3_new
    /\ AboutToLookAtSky => ray.direction # Vec3_new
    /\ AboutToReflect => ray.direction # Vec3_new

\* a metal of fuzz 1 and the unit vector opposite to the reflection: the
\* scattered ray has no direction, hits nothing, and the estimator
\* normalizes the zero vector for the sky
C27_ZeroDirection ==
    /\ AboutToLookAtSky
    /\ ray.direction = Vec3_new
    /\ scatters > 0 /\ vector # Vec3_new
    /\ sky(ray) = <<NaN, NaN, NaN>>

\* the rejection loop accepts the zero vector
C27_ZeroDraw == DrawNormalized /\ vector = Vec3_new

\* the only ray that is normalized at length zero is one left by a scatter,
\* and the reflective material is never handed one
C27_OnlyScatteredRays ==
    /\ (AboutToLookAtSky /\ scatters = 0) => ray.direction # Vec3_new
    /\ AboutToReflect => ray.direction # Vec3_new

InUnit(x) == RLe(R(0), x) /\ RLe(x, R(1))

AlbedosInUnit(objects) ==
    \A k \in 1..Len(objects) : \A c \in 1..3 : InUnit(objects[k].material.albedo[c])

\* the frame being executed has returned `color`
Returned == pc \in {"return", "done"}

\* C29 (as claimed): with every albedo of the scene in [0,1], every channel
\* of the colour get_ray_color returns lies in [0,1], for every ray and
\* every depth.
C29_ColorInUnit ==
    (Returned /\ AlbedosInUnit(world)) => \A c \in 1..3 : InUnit(color[c])

\* the same, but for the colours that are not numbers
C29_ColorInUnitOrNaN ==
    (Returned /\ AlbedosInUnit(world)) => \A c \in 1..3 : InUnit(color[c]) \/ IsNaN(color[c])

\* a colour that is not a number is returned to render
C29_NaNReturned ==
    /\ pc = "done" /\ AlbedosInUnit(world)
    /\ color = <<NaN, NaN, NaN>>

\* the interval of the specification: parameters above 0.001
AcneInterval == Interval_new(Q(1, 1000), PosInf)

\* the scene has been tested with the ray of the frame: the frame is about
\* to scatter, or the outermost frame has returned the sky
Tested ==
    \/ pc = "scatter"
    \/ pc = "return" /\ stack = <<>> /\ scatters = 0 /\ hit_tests = 1

AcceptedAs(res) ==
    /\ (pc = "scatter") <=> res.hit
    /\ res.hit => record = res.record

\* C17 (as claimed): the estimator accepts an intersection as a hit iff its
\* parameter is strictly greater than 0.001: what it has found is what a test
\* with the interval (0.001, +infinity) finds.
C17_AcneInterval ==
    Tested => AcceptedAs(Traceables_hit(world, ray, AcneInterval, HitRecord_new))

\* what the code does: the same with the interval (0.1, +infinity)
C17_TenthInterval ==
    Tested => AcceptedAs(Traceables_hit(world, ray, TraceInterval, HitRecord_new))

\* lerp(white, (0.5, 0.7, 1.0), t) = white + t * ((0.5, 0.7, 1.0) - white)
SkyLerp(t) ==
    <<RSub(R(1), RMul(t, Q(1, 2))), RSub(R(1), RMul(t, Q(3, 10))), R(1)>>

\* the sky gradient in direction d: t = 0.5 * (d.y / |d| + 1)
SkyGradient(d) ==
    SkyLerp(RMul(Q(1, 2), RAdd(RDiv(d[2], Vec3_length(d)), R(1))))

\* what the estimator has done for a primary ray of an empty scene once it
\* has returned: one test of the scene, no hit, no recursive call, the sky
EmptySceneSky ==
    /\ color = SkyGradient(ray.direction)
    /\ ~Traceables_hit(world, ray, TraceInterval, HitRecord_new).hit
    /\ scatters = 0
    /\ stack = <<>>

\* C11 (as claimed): in a scene of zero objects every primary ray is given
\* exactly the sky gradient lerp(white, (0.5,0.7,1.0), 0.5*(unit_direction.y+1)):
\* hit is false for every ray and the estimator makes no recursive call.
C11_EmptySceneSky == (world = <<>> /\ pc = "done") => EmptySceneSky

\* C11 (amended): the same for every render whose max_depth is at least 1;
\* with max_depth = 0 the estimator returns black before it tests the scene.
C11_EmptySceneSkyAtDepth ==
    /\ (world = <<>> /\ pc = "done" /\ max_depth >= 1) => (EmptySceneSky /\ hit_tests = 1)
    /\ (world = <<>> /\ pc = "done" /\ max_depth = 0) => (color = Vec3_new /\ hit_tests = 0)
    /\ world = <<>> => pc # "scatter"

\* a ray that looks up at 3/5 has returned with the colour (0.6, 0.76, 1.0)
C11_Witness ==
    /\ world = <<>>
    /\ pc = "done"
    /\ max_depth = MaxDepth
    /\ ray.direction = V(0, 3, -4)
    /\ color = <<Q(3, 5), Q(19, 25), R(1)>>
    /\ hit_tests = 1

\* x is a bound of the interval, is strictly between the bounds, is outside
\* [min, max]
AtBound(iv, x) == ~IsNaN(x) /\ (x = iv.min \/ x = iv.max)

Between(iv, x) == RLt(iv.min, x) /\ RLt(x, iv.max)

Outside(iv, x) == RLt(x, iv.min) \/ RLt(iv.max, x)

\* what C16 says of contains and surrounds at one point
InclusiveExclusive(iv, x, res) ==
    /\ AtBound(iv, x) => (res.contains /\ ~res.surrounds)
    /\ Between(iv, x) => (res.contains /\ res.surrounds)
    /\ Outside(iv, x) => (~res.contains /\ ~res.surrounds)

\* C16 (as claimed, for every interval): contains is true and surrounds is
\* false at min and at max, both are true strictly between the bounds and
\* both are false outside [min, max].
C16_InclusiveExclusive ==
    fn = "Interval" => InclusiveExclusive(arg.interval, arg.x, out)

\* C16 (amended): the same for every interval with min <= max; an interval
\* with min > max, as Interval::EMPTY, contains and surrounds no value, its
\* bounds included.
C16_InclusiveExclusiveOrdered ==
    fn = "Interval" =>
        /\ RLe(arg.interval.min, arg.interval.max)
              => InclusiveExclusive(arg.interval, arg.x, out)
        /\ RLt(arg.interval.max, arg.interval.min)
              => (~out.contains /\ ~out.surrounds)
        /\ IsNaN(arg.x) => (~out.contains /\ ~out.surrounds)

\* the upper bound of (0.1, +infinity) is contained and not surrounded
C16_Witness ==
    /\ fn = "Interval"
    /\ arg.interval = Interval_new(Q(1, 10), PosInf)
    /\ arg.x = PosInf
    /\ out.contains
    /\ ~out.surrounds

\* the sample another render of the same scene and camera takes of the same
\* pixel: the system seeds the generators with e, the pool runs the scanline
\* on thread t
OtherRender(e, t) ==
    Sampled(Camera_get_ray(arg.camera, arg.pixel[1], arg.pixel[2], thread_rng(e, t)))

\* C13 (as claimed): two renders of the same scene and camera configuration
\* sample the same rays and so give the pixel the same colour, whatever
\* thread traces the scanline.
C13_SameConfigurationSameOutput ==
    fn = "get_ray" =>
        \A e \in Entropies, t \in Threads :
            /\ OtherRender(e, t).ray = out.ray
            /\ HasLength(OtherRender(e, t).ray.direction)
                  => OtherRender(e, t).color = out.color

\* the same generators, another thread: the pixel gets another colour
C13_ThreadChangesColor ==
    /\ fn = "get_ray"
    /\ \E t \in Threads :
          /\ HasLength(OtherRender(arg.entropy, t).ray.direction)
          /\ OtherRender(arg.entropy, t).color # out.color

(***************************************************************************)
(* Properties of the render                                                 *)
(***************************************************************************)
Panicked(message) == \E k \in 1..Len(stderr) : stderr[k] = message

\* what render has traced and written
RenderProgress == <<file, file_pixels, written, wpc, scanline_data, scanlines_done, pixels>>

\* the fields of the camera that are kept in variables of their own
CameraFields ==
    /\ camera.image_width = image_width
    /\ camera.aspect_ratio = aspect_ratio
    /\ camera.pixel_samples = pixel_samples
    /\ rpc # "new" => camera.image_height = image_height

\* C14, the states: once initialize has returned the camera is the one it
\* derived from the configuration, and the scene is the one handed to render
C14_DerivedOnce ==
    /\ CameraFields
    /\ rpc # "new" =>
          camera = Camera_initialize(RenderCamera(image_width, aspect_ratio, pixel_samples))
    /\ world = RenderScene(shade)

\* C14, the steps: no step after initialize changes a field of the camera,
\* the members of the scene or a material
C14_ReadOnly ==
    rpc # "new" => (camera' = camera /\ cameraVars' = cameraVars /\ world' = world)

\* C14: from the return of initialize until render finishes no scanline
\* worker modifies a field of the camera, configured or derived, nor the
\* member list of the scene or a material.
C14_WorkersLeaveCameraAndScene ==
    /\ []C14_DerivedOnce
    /\ [][C14_ReadOnly]_vars

\* one worker has returned and another has not started; the derived fields
\* are those of a 4 x 2 image seen from the origin
C14_Witness ==
    /\ renderer = "parallel"
    /\ rpc = "tracing"
    /\ \E j \in DOMAIN wpc : wpc[j] = "done"
    /\ \E j \in DOMAIN wpc : wpc[j] = "pending"
    /\ Len(world) = 2
    /\ camera.image_width = 4
    /\ camera.image_height = 2
    /\ camera.center = V(0, 0, 0)
    /\ camera.pixel_delta_u = V(4, 0, 0)
    /\ camera.pixel_delta_v = V(0, -4, 0)
    /\ camera.pixel_origin = V(-6, 2, -4)

\* the workers that have executed their fetch_add
Counted == { j \in DOMAIN wpc : wpc[j] \in {"counted", "done"} }

\* C15, the states: the counter is the number of workers that have
\* incremented it, and the values they observed are distinct and are
\* 1 .. counter; it is image_height once the parallel phase has ended
C15_Counter ==
    renderer = "parallel" =>
        /\ scanlines_done = Cardinality(Counted)
        /\ { observed[j] : j \in Counted } = 1..scanlines_done
        /\ \A j, k \in Counted : observed[j] = observed[k] => j = k
        /\ \A j \in DOMAIN wpc \ Counted : observed[j] = 0
        /\ rpc \in {"writing", "done"} =>
              (scanlines_done = image_height /\ Counted = 0..(image_height - 1))

\* what belongs to worker j alone
WorkerSlot(j) == <<wpc[j], scanline_data[j], observed[j]>>

\* what the workers and the thread that called render have in common,
\* the counter excepted
CommonState == <<file, file_pixels, pixels, written, camera, cameraVars, world>>

\* C15, the steps: the counter never decreases, a worker's fetch_add adds 1
\* once, and a step of the parallel phase writes the slot of one worker
\* and nothing the workers have in common but the counter
C15_Step ==
    /\ scanlines_done' >= scanlines_done
    /\ scanlines_done' <= scanlines_done + 1
    /\ scanlines_done' # scanlines_done =>
          \E j \in DOMAIN wpc :
              /\ wpc[j] = "traced"
              /\ wpc'[j] = "counted"
              /\ observed'[j] = scanlines_done'
    /\ (rpc = "tracing" /\ rpc' = "tracing") =>
          /\ CommonState' = CommonState
          /\ \E j \in DOMAIN wpc :
                \A k \in DOMAIN wpc \ {j} : WorkerSlot(k)' = WorkerSlot(k)

\* C15: the scanlines-completed counter only ever increases, each worker
\* increments it exactly once, the values the workers observe after their
\* increment are pairwise distinct and cover 1..image_height, the counter
\* equals image_height when the parallel phase ends, and it is the only
\* state the workers write in common.
C15_ProgressCounter ==
    /\ []C15_Counter
    /\ [][C15_Step]_vars

\* three scanlines are collected; the worker of scanline 0 was the last to
\* increment the counter and the worker of scanline 2 the first
C15_Witness ==
    /\ renderer = "parallel"
    /\ rpc = "writing"
    /\ image_height = 3
    /\ scanlines_done = 3
    /\ observed[0] = 3
    /\ observed[1] = 2
    /\ observed[2] = 1

\* C12, the states: a panic has ended the render; after a failed File::create
\* or header write nothing is in the file and no scanline was traced; a
\* render that panicked has not reported completion.
C12_Aborted ==
    /\ (Panicked(CreatePanic) \/ Panicked(HeaderPanic) \/ Panicked(WritePanic))
          <=> rpc = "aborted"
    /\ (Panicked(CreatePanic) \/ Panicked(HeaderPanic)) =>
          /\ file = <<>>
          /\ wpc = <<>>
          /\ scanlines_done = 0
          /\ written = 0
    /\ rpc = "aborted" => ~Panicked("Done.")
    /\ Panicked("Done.") => rpc = "done"

\* C12, the steps: the step of a failed write leaves the file as it was, and
\* nothing is traced or written once render has aborted
C12_NoStepAfterAbort ==
    /\ rpc' = "aborted" => (file' = file /\ written' = written)
    /\ rpc = "aborted" => (rpc' = "aborted" /\ RenderProgress' = RenderProgress)

\* C12: if the output file cannot be created, render aborts before any
\* scanline is traced; if a write to the file fails, render aborts and no
\* later pixel is written; a failed render never reports completion.
C12_AbortOnIoFailure ==
    /\ []C12_Aborted
    /\ [][C12_NoStepAfterAbort]_vars

\* the sixth write of a parallel render failed: five triples are in the file
C12_Witness ==
    /\ renderer = "parallel"
    /\ rpc = "aborted"
    /\ Panicked(WritePanic)
    /\ written = 5
    /\ Len(file) = 8
    /\ written < image_width * image_height

\* the pixel the k-th triple of a raster of this width belongs to
RasterPixel(k) == <<(k - 1) \div image_width, (k - 1) % image_width>>

\* the line write_color gives the pixel at position <<j, i>>
PixelLine(at) == write_color(PixelSum(shade, at[2], at[1]), pixel_samples)

\* C1: in the parallel render, whatever the order in which the scanline
\* workers return, the triples are written in row-major order: the k-th triple
\* written is that of pixel ((k-1) div W, (k-1) mod W), and all W*H are written.
C1_RasterOrder ==
    renderer = "parallel" =>
        /\ Len(file) = 3 + Len(file_pixels) \/ file = <<>>
        /\ \A k \in 1..Len(file_pixels) :
              /\ file_pixels[k] = RasterPixel(k)
              /\ file[3 + k] = PixelLine(RasterPixel(k))
        /\ rpc = "done" => Len(file_pixels) = image_width * image_height

\* the last scanline was the first to return, and the file is complete
C1_Witness ==
    /\ renderer = "parallel"
    /\ rpc = "done"
    /\ image_height = 3
    /\ image_width = 4
    /\ finished = <<2, 0, 1>>
    /\ Len(file_pixels) = 12
    /\ file_pixels[12] = <<2, 3>>

AllReturned == \A j \in DOMAIN wpc : wpc[j] = "done"

\* C2 (as claimed): the file is not touched before the last scanline worker
\* has finished.
C2_NoWriteBeforeLastWorker ==
    (renderer = "parallel" /\ file # <<>>) => (rpc \in {"writing", "done"} /\ AllReturned)

\* C2 (amended): the header is written before the first worker starts and the
\* file is not written during the parallel phase: every pixel triple is
\* written after the last scanline worker has returned, by the thread that
\* called render alone.
C2_NoWriteWhileTracing ==
    /\ [](renderer = "parallel" =>
            /\ Len(file) > 3 => (rpc \in {"writing", "done", "aborted"} /\ AllReturned)
            /\ (\E j \in DOMAIN wpc : wpc[j] # "pending") => Len(file) >= 3)
    /\ [][rpc = "tracing" => file' = file]_vars

\* a render in which triples are being written after three workers returned
C2_Witness ==
    /\ renderer = "parallel"
    /\ rpc = "writing"
    /\ image_height = 3
    /\ AllReturned
    /\ Len(file) > 3
    /\ written < image_width * image_height

\* the channel values the pixel sums of the model encode to
Levels == { 0, 16, 64, 128, 255 }

TripleLines == { format_triple(r, g, b) : r \in Levels, g \in Levels, b \in Levels }

\* C9: the file render leaves holds the lines 'P3', 'W H' and '255' and then
\* exactly W * H lines of one RGB triple each, H being the derived height
\* (a render that panicked leaves no file, an empty one or a prefix of that).
C9_FileFormat ==
    /\ (rpc \notin {"idle", "new"} /\ ~(rpc = "aborted" /\ file = <<>>)) =>
          /\ Len(file) >= 3
          /\ file[1] = "P3"
          /\ file[2] = ToString(image_width) \o " " \o ToString(image_height)
          /\ file[3] = "255"
          /\ image_height >= 1
          /\ \A k \in 4..Len(file) : file[k] \in TripleLines
    /\ rpc = "done" => Len(file) = 3 + image_width * image_height

\* a 4x3 image: the header '4 3' and 12 triples
C9_Witness ==
    /\ rpc = "done"
    /\ image_width = 4
    /\ image_height = 3
    /\ SubSeq(file, 1, 3) = <<"P3", "4 3", "255">>
    /\ Len(file) = 15

====
